---------------------------- MODULE Spec2Model ----------------------------
(***************************************************************************)
(* Model of the miriam-core tools and hooks.                               *)
(*                                                                         *)
(*   Spec       the task ledger: quickCapture (type task) and taskExecutor *)
(*              (list / status / execute) over memory/tasks.jsonl          *)
(*   SpecAccess the pure functions deriveAccessLevel and canAccess of the  *)
(*              access-level-bootstrap hook                                *)
(*   SpecBoot   the access-level-bootstrap hook handler                    *)
(*   SpecAtomic atomicWrite of utils/fs, one file-system call per step,    *)
(*              next to a reader of the same file                          *)
(*   SpecFiles  memoryUpdate, updateDashboardNote, updateEmotionalState,   *)
(*              threadMarker and quickCapture, one whole call per step     *)
(*   SpecEmotional  initEmotionalState and updateEmotionalState, several   *)
(*              calls in a row                                             *)
(*   SpecThreads    threadMarker calls in a row                            *)
(*   SpecResearch   checkQuota, routeResearch, logUsage, resetDailyQuota   *)
(*   SpecDiary  diaryWrite, diaryRead and diaryToday over diary.jsonl      *)
(*   SpecOverlap    two atomicWrite calls on one path, one file-system     *)
(*              call per step                                              *)
(*                                                                         *)
(* A JSONL file is a sequence of lines; a line is the record it parses to, *)
(* or a line that JSON.parse rejects.  Every writer of tasks.jsonl         *)
(* terminates its line with "\n", so the file is always a whole number of  *)
(* lines.                                                                  *)
(***************************************************************************)
EXTENDS Integers, Sequences, FiniteSets, TLC

\* ------------------------------------------------------------------ bounds
MaxLines == 3        \* tasks.jsonl is not grown beyond this many lines
MaxInitLines == 2    \* lines that a log file holds before the first call
MaxDay == 2          \* the clock stops advancing at this day
MaxFiles == 3        \* entries of a bootstrap list handed to the hook
MaxSegs == 5         \* colon-separated segments of a session key
MaxDeliveries == 2   \* times the host delivers the bootstrap event of a session
MaxChunks == 2       \* chunks in which writeFile writes the content of a file
MaxCalls == 1        \* calls of the file tools made on a workspace
MaxSteps == 2        \* calls made in a row on the files of one tool

\* --------------------------------------------------------------- variables
VARIABLES
  tasksFile,      \* memory/tasks.jsonl, a sequence of lines
  today,          \* the current day (new Date().toISOString().split("T")[0])
  uuids,          \* number of ids randomUUID has handed out
  call,           \* the last tool call (its parameters)
  result,         \* what the last tool call returned
  prevFile,       \* tasks.jsonl as it was when the last call started
  sessionKey,     \* argument of deriveAccessLevel
  currentLevel,   \* arguments of canAccess
  targetLevel,
  derived,        \* value returned by deriveAccessLevel
  allowed,        \* value returned by canAccess
  returned,       \* whether the function called has returned
  event,          \* the event delivered to the hook handler
  bootstrapFiles, \* event.context.bootstrapFiles
  outcome,        \* "pending", "returned" or "threw"
  inputs,         \* the lists the handler was started on, one per delivery
  fs,             \* the files that exist: path -> content
  dirs,           \* the directories that exist
  now,            \* the clock in milliseconds (new Date().toISOString())
  calls,          \* number of file tool calls made
  DEFAULT_STATE,  \* the module-level object of emotional-state.ts
  aw,             \* the atomicWrite call in progress
  observed        \* what the reader of the path last read

taskVars == <<tasksFile, today, uuids, call, result, prevFile>>
accessVars == <<sessionKey, currentLevel, targetLevel, derived, allowed, returned>>
bootVars == <<event, bootstrapFiles, outcome, inputs>>
fileVars == <<fs, now, calls, DEFAULT_STATE>>
atomicVars == <<aw, observed>>
vars == <<taskVars, accessVars, bootVars, fileVars, dirs, atomicVars>>

\* ----------------------------------------------------------------- helpers
Range(s) == {s[i] : i \in DOMAIN s}

SeqsUpTo(S, n) == UNION {[1..k -> S] : k \in 0..n}

IsPrefix(s, t) == Len(s) <= Len(t) /\ SubSeq(t, 1, Len(s)) = s

\* ======================================================================
\* The file system as the tools see it: src/unnamed/part_005 (utils/fs.ts)
\* ======================================================================

\* A path is the directory it lies in (a sequence of segments, starting with
\* "" when the path is absolute), a base name with its extension, whether
\* ".tmp" was added to it, and the timestamp added to it (0 for none).
Path(dir, name, ext) ==
  [dir |-> dir, name |-> name, ext |-> ext, tmp |-> FALSE, stamp |-> 0]

\* dirname(path)
dirname(path) == path.dir

\* mkdir(dir, { recursive: true }): the directory and every missing ancestor.
mkdir(dirset, dir) == dirset \cup {SubSeq(dir, 1, k) : k \in 1..Len(dir)}

\* params.workspaceRoot || join(homedir(), ".openclaw", "workspace")
WorkspaceRoot == <<"", "ws">>

\* join(workspaceRoot, "memory")
MemoryDir == Append(WorkspaceRoot, "memory")

\* The content of a file: text (a sequence of characters or chunks that is
\* not JSON), or the text JSON.stringify makes of a value.
Text(chars) == [kind |-> "text", chars |-> chars]

\* ======================================================================
\* Task ledger: src/src/tools/task-executor.ts, src/src/tools/quick-capture.ts
\* ======================================================================

Statuses == {"pending", "in-progress", "completed", "cancelled"}

\* Ids of the tasks that are in the log before the first call.  Id 0 stands
\* for an absent taskId parameter.
InitIds == {1, 2}

\* randomUUID(): the n-th id handed out; never an id used before.
randomUUID(n) == Cardinality(InitIds) + n

\* The Task interface: a line that parses.  dueDate is a day number, 0 when
\* the field is absent; command and completedAt tell whether the task has the
\* field (the program never reads the values).  The payload fields created,
\* priority and context are carried along by the spread in updateTaskStatus
\* exactly as task is, and are folded into task.
Task(id, task, status, command, dueDate, completedAt) ==
  [json |-> TRUE, id |-> id, task |-> task, status |-> status,
   command |-> command, dueDate |-> dueDate, completedAt |-> completedAt]

\* A line of tasks.jsonl that JSON.parse rejects.
MalformedLine ==
  [json |-> FALSE, id |-> 0, task |-> "", status |-> "",
   command |-> FALSE, dueDate |-> 0, completedAt |-> FALSE]

readTasksUntilMalformed(file) ==
  IF \E i \in DOMAIN file : ~ file[i].json
    THEN SubSeq(file, 1, (CHOOSE i \in DOMAIN file :
                            ~ file[i].json /\ \A j \in 1..(i - 1) : file[j].json) - 1)
    ELSE file

\* readTasks: the lines that parse, in file order; a line that does not parse
\* is skipped.  A missing file reads as no tasks.
readTasks(file) == SelectSeq(file, LAMBDA line : line.json)

mapSetKeepFirst(taskMap, task) ==
  IF \E i \in DOMAIN taskMap : taskMap[i].id = task.id
    THEN taskMap
    ELSE Append(taskMap, task)

\* Map.set: an existing key keeps its position and takes the new value, a new
\* key goes to the end.
mapSet(taskMap, task) ==
  IF \E i \in DOMAIN taskMap : taskMap[i].id = task.id
    THEN [i \in DOMAIN taskMap |->
            IF taskMap[i].id = task.id THEN task ELSE taskMap[i]]
    ELSE Append(taskMap, task)

RECURSIVE setAll(_, _, _)
setAll(taskMap, tasks, i) ==
  IF i > Len(tasks) THEN taskMap
  ELSE setAll(mapSet(taskMap, tasks[i]), tasks, i + 1)

\* getLatestTasks: Array.from(taskMap.values()) after setting every task.
getLatestTasks(tasks) == setAll(<<>>, tasks, 1)

filterByStatusNegated(tasks, filter) ==
  IF filter \in {"", "all"} THEN tasks
  ELSE SelectSeq(tasks, LAMBDA task : task.status # filter)

\* filterByStatus: filter "" stands for an absent filter.
filterByStatus(tasks, filter) ==
  IF filter \in {"", "all"} THEN tasks
  ELSE SelectSeq(tasks, LAMBDA task : task.status = filter)

isDueAlways(task, day) == TRUE

\* isDue: ISO dates compare as the days they name.
isDue(task, day) == task.dueDate = 0 \/ task.dueDate <= day

\* executeTask that fails where it is to succeed and succeeds where it fails.
executeTaskInverted(task, failing) == task.command /\ task.id \in failing

\* executeTask: a task without a command succeeds; the command of a task in
\* failing exits non-zero or times out.
executeTask(task, failing) == ~ task.command \/ task.id \notin failing

updateTaskStatusInPlace(file, taskId, newStatus, tasks) ==
  IF ~ \E i \in DOMAIN tasks : tasks[i].id = taskId
    THEN [threw |-> TRUE, file |-> file]
    ELSE [threw |-> FALSE,
          file |-> [i \in DOMAIN file |->
                     IF file[i].json /\ file[i].id = taskId
                       THEN [file[i] EXCEPT !.status = newStatus,
                               !.completedAt =
                                 IF newStatus = "completed" THEN TRUE ELSE @]
                       ELSE file[i]]]

updateTaskStatusUpsert(file, taskId, newStatus, tasks) ==
  [threw |-> FALSE,
   file |-> Append(file, [json |-> TRUE, id |-> taskId, task |-> "", status |-> newStatus,
                          command |-> FALSE, dueDate |-> 0, completedAt |-> FALSE])]

\* updateTaskStatus: throws when the id is not among tasks, else appends the
\* found task with the new status (and completedAt when completed).
updateTaskStatus(file, taskId, newStatus, tasks) ==
  IF ~ \E i \in DOMAIN tasks : tasks[i].id = taskId
    THEN [threw |-> TRUE, file |-> file]
    ELSE LET task == tasks[CHOOSE i \in DOMAIN tasks :
                             /\ tasks[i].id = taskId
                             /\ \A j \in 1..(i - 1) : tasks[j].id # taskId]
             updated == [task EXCEPT !.status = newStatus,
                           !.completedAt =
                             IF newStatus = "completed" THEN TRUE ELSE @]
         IN [threw |-> FALSE, file |-> Append(file, updated)]

\* The result objects of the tools.  tasks is <<>> and executed is -1 when the
\* field is absent.
Result(success, tasks, executed, error) ==
  [success |-> success, tasks |-> tasks, executed |-> executed, error |-> error]

\* A tool call: its parameters, and the ids of the tasks it passed to
\* executeTask.
Call(tool, action, taskId, newStatus, filter) ==
  [tool |-> tool, action |-> action, taskId |-> taskId,
   newStatus |-> newStatus, filter |-> filter, ran |-> {}]

\* The execute loop from position i of pendingTasks on: the file and the
\* number of tasks executed so far.
RECURSIVE executeLoop(_, _, _, _, _, _)
executeLoop(file, pendingTasks, i, latestTasks, failing, executed) ==
  IF i > Len(pendingTasks) THEN [file |-> file, executed |-> executed]
  ELSE IF executeTask(pendingTasks[i], failing)
    THEN executeLoop(
           updateTaskStatus(file, pendingTasks[i].id, "completed", latestTasks).file,
           pendingTasks, i + 1, latestTasks, failing, executed + 1)
    ELSE executeLoop(file, pendingTasks, i + 1, latestTasks, failing, executed)

\* What the list action computes from the file.
listTasks(file, filter) == filterByStatus(getLatestTasks(readTasks(file)), filter)

\* taskExecutor({action: "list", filter})
taskExecutorList(filter) ==
  /\ call' = Call("taskExecutor", "list", 0, "", filter)
  /\ result' = Result(TRUE, listTasks(tasksFile, filter), -1, "")
  /\ prevFile' = tasksFile
  /\ dirs' = mkdir(dirs, MemoryDir)
  /\ UNCHANGED <<tasksFile, today, uuids, accessVars, bootVars, fileVars, atomicVars>>

\* taskExecutor({action: "status", taskId, newStatus})
taskExecutorStatus(taskId, newStatus) ==
  LET latestTasks == getLatestTasks(readTasks(tasksFile))
      upd == updateTaskStatus(tasksFile, taskId, newStatus, latestTasks)
  IN /\ call' = Call("taskExecutor", "status", taskId, newStatus, "")
     /\ prevFile' = tasksFile
     /\ IF taskId = 0 \/ newStatus = ""
          THEN /\ result' = Result(FALSE, <<>>, -1, "taskId and newStatus required for status action")
               /\ UNCHANGED tasksFile
          ELSE IF upd.threw
            THEN /\ result' = Result(FALSE, <<>>, -1, "Task executor failed: Task not found")
                 /\ UNCHANGED tasksFile
            ELSE /\ Len(upd.file) <= MaxLines
                 /\ tasksFile' = upd.file
                 /\ result' = Result(TRUE, <<>>, -1, "")
     /\ dirs' = mkdir(dirs, MemoryDir)
     /\ UNCHANGED <<today, uuids, accessVars, bootVars, fileVars, atomicVars>>

\* taskExecutor({action: "execute"}); failing is the set of tasks whose
\* command fails in this run.
taskExecutorExecute(failing) ==
  LET latestTasks == getLatestTasks(readTasks(tasksFile))
      pendingTasks == SelectSeq(latestTasks,
                        LAMBDA task : task.status = "pending" /\ isDue(task, today))
      run == executeLoop(tasksFile, pendingTasks, 1, latestTasks, failing, 0)
  IN /\ failing \subseteq {pendingTasks[i].id : i \in {j \in DOMAIN pendingTasks : pendingTasks[j].command}}
     /\ Len(run.file) <= MaxLines
     /\ call' = [Call("taskExecutor", "execute", 0, "", "") EXCEPT
                   !.ran = {pendingTasks[i].id : i \in DOMAIN pendingTasks}]
     /\ prevFile' = tasksFile
     /\ tasksFile' = run.file
     /\ result' = Result(TRUE, <<>>, run.executed, "")
     /\ dirs' = mkdir(dirs, MemoryDir)
     /\ UNCHANGED <<today, uuids, accessVars, bootVars, fileVars, atomicVars>>

\* taskExecutor with an action that is none of list, status, execute.
taskExecutorUnknown ==
  /\ call' = Call("taskExecutor", "purge", 0, "", "")
  /\ result' = Result(FALSE, <<>>, -1, "Unknown action")
  /\ prevFile' = tasksFile
  /\ dirs' = mkdir(dirs, MemoryDir)
  /\ UNCHANGED <<tasksFile, today, uuids, accessVars, bootVars, fileVars, atomicVars>>

VALID_TYPES == {"task", "uncertainty", "thread", "note"}
VALID_PRIORITIES == {"low", "medium", "high"}

\* String.prototype.trim on the contents the model passes.
trim(content) ==
  CASE content = "  " -> ""
    [] content = " buy milk " -> "buy milk"
    [] OTHER -> content

\* validateParams: the error message, "" for null.
validateParams(content, type, priority) ==
  IF content = "" \/ trim(content) = "" THEN "Content cannot be empty"
  ELSE IF type \notin VALID_TYPES THEN "Invalid type"
  ELSE IF priority # "" /\ priority \notin VALID_PRIORITIES THEN "Invalid priority"
  ELSE ""

\* parseDate: dueDate is [word, day]; "tomorrow" and "today" are taken from
\* the clock, any other string is kept as it is (day names the date it holds).
parseDate(dateStr, day) ==
  IF dateStr.word = "tomorrow" THEN day + 1
  ELSE IF dateStr.word = "today" THEN day
  ELSE dateStr.day

NoDueDate == [word |-> "", day |-> 0]

\* captureTask: the line appended for the parameters.
captureTask(content, command, dueDate, taskId, day) ==
  Task(taskId, trim(content), "pending", command,
       IF dueDate = NoDueDate THEN 0 ELSE parseDate(dueDate, day), FALSE)

\* quickCapture({content, type, priority, command, dueDate}) for the types
\* that do not write a daily file.
quickCapture(params) ==
  LET content == params.content
      type == params.type
      command == params.command
      dueDate == params.dueDate
      validationError == validateParams(content, type, params.priority)
      taskId == randomUUID(uuids + 1)
  IN /\ call' = [params |-> params] @@ Call("quickCapture", type, 0, "", "")
     /\ prevFile' = tasksFile
     /\ IF validationError # ""
          THEN /\ result' = Result(FALSE, <<>>, -1, validationError)
               /\ UNCHANGED <<tasksFile, uuids, dirs>>
          ELSE IF type = "task"
            THEN /\ Len(tasksFile) < MaxLines
                 /\ dirs' = mkdir(dirs, MemoryDir)
                 /\ tasksFile' = Append(tasksFile, captureTask(content, command, dueDate, taskId, today))
                 /\ uuids' = uuids + 1
                 /\ result' = Result(TRUE, <<>>, -1, "")
            ELSE /\ type = "thread"
                 /\ dirs' = mkdir(dirs, MemoryDir)
                 /\ result' = Result(FALSE, <<>>, -1, "Thread capture not yet implemented - use thread-marker tool")
                 /\ UNCHANGED <<tasksFile, uuids>>
     /\ UNCHANGED <<today, accessVars, bootVars, fileVars, atomicVars>>

\* Midnight passes.
Tick ==
  /\ today < MaxDay
  /\ today' = today + 1
  /\ UNCHANGED <<tasksFile, uuids, call, result, prevFile, accessVars, bootVars,
                 fileVars, dirs, atomicVars>>

\* Lines that tasks.jsonl may hold before the first call.
InitLines ==
  { Task(1, "a", "pending", TRUE, 0, FALSE),
    Task(1, "a", "completed", FALSE, 0, TRUE),
    Task(2, "b", "pending", FALSE, MaxDay, FALSE),
    MalformedLine }

\* An id that no task has.
UnknownId == randomUUID(MaxLines + 1)

\* The (taskId, newStatus) pairs a caller passes: every id in the log with
\* every new status, and one call for each way of being rejected (taskId
\* absent, newStatus absent, id not in the log).
StatusCalls ==
  ({tasksFile[i].id : i \in {j \in DOMAIN tasksFile : tasksFile[j].json}}
     \X {"pending", "in-progress", "completed"})
    \cup {<<0, "completed">>, <<1, "">>, <<UnknownId, "completed">>}

Params(content, type, priority, command, dueDate) ==
  [content |-> content, type |-> type, priority |-> priority,
   command |-> command, dueDate |-> dueDate]

\* The quickCapture calls of the model: three valid task captures and one
\* call for each way of being rejected.
CaptureParams ==
  { Params(" buy milk ", "task", "", FALSE, NoDueDate),
    Params(" buy milk ", "task", "high", TRUE, [word |-> "tomorrow", day |-> 0]),
    Params(" buy milk ", "task", "", TRUE, [word |-> "", day |-> 1]),
    Params("", "task", "", FALSE, NoDueDate),
    Params("  ", "task", "", FALSE, NoDueDate),
    Params(" buy milk ", "bogus", "", FALSE, NoDueDate),
    Params(" buy milk ", "task", "urgent", FALSE, NoDueDate),
    Params(" buy milk ", "thread", "", FALSE, NoDueDate) }

AccessIdle ==
  /\ sessionKey = <<>> /\ currentLevel = "" /\ targetLevel = ""
  /\ derived = "" /\ allowed = FALSE /\ returned = FALSE

BootIdle ==
  /\ event = <<>> /\ bootstrapFiles = <<>> /\ outcome = "" /\ inputs = <<>>

\* The default state as the module is loaded (emotional-state.ts, 50-59);
\* recent_wakes is [], decay_hours 24.
DefaultCurrentState ==
  [primary |-> "curious engagement", secondary |-> "steady focus",
   background |-> "neutral baseline"]

\* No file tool has been called: the workspace holds its memory directory
\* and nothing else.
FilesIdle ==
  /\ fs = <<>> /\ dirs = mkdir({}, MemoryDir) /\ now = 1 /\ calls = 0
  /\ DEFAULT_STATE = [current_state |-> DefaultCurrentState, recent_wakes |-> <<>>]

AtomicIdle ==
  /\ aw = [pc |-> "idle"] /\ observed = [kind |-> "none"]

Init ==
  /\ tasksFile \in SeqsUpTo(InitLines, MaxInitLines)
  /\ today = 1
  /\ uuids = 0
  /\ call = Call("none", "", 0, "", "")
  /\ result = Result(TRUE, <<>>, -1, "")
  /\ prevFile = tasksFile
  /\ AccessIdle
  /\ BootIdle
  /\ FilesIdle
  /\ AtomicIdle

List == \E filter \in {"", "all", "pending", "completed"} : taskExecutorList(filter)

Status ==
  \E c \in StatusCalls : taskExecutorStatus(c[1], c[2])

Execute ==
  \E failing \in SUBSET {tasksFile[i].id : i \in {j \in DOMAIN tasksFile : tasksFile[j].command}} :
    taskExecutorExecute(failing)

Capture == \E params \in CaptureParams : quickCapture(params)

Next ==
  \/ List
  \/ Status
  \/ Execute
  \/ taskExecutorUnknown
  \/ Capture
  \/ Tick

Spec == Init /\ [][Next]_vars

\* ======================================================================
\* Access levels: src/unnamed/part_001 (hooks/access-level-bootstrap handler)
\* ======================================================================

\* Access level hierarchy (higher index = more access).
ACCESS_LEVELS == <<"public", "household", "trusted", "family", "private">>

Levels == Range(ACCESS_LEVELS)

\* Known user mappings: the own properties of the object literal.
USER_ACCESS_MAP == [id \in {"192802611"} |-> "private"]

\* The value of a property that does not exist.
Undefined == "<undefined>"

\* USER_ACCESS_MAP is a plain object literal, so it inherits the properties
\* of Object.prototype; each is an object or a function, written here as the
\* string a template literal makes of it.
ObjectPrototype ==
  [name \in {"constructor"} |-> "function Object() { [native code] }"]

\* USER_ACCESS_MAP[id]: own properties first, then the prototype's.
getProperty(id) ==
  IF id \in DOMAIN USER_ACCESS_MAP THEN USER_ACCESS_MAP[id]
  ELSE IF id \in DOMAIN ObjectPrototype THEN ObjectPrototype[id]
  ELSE Undefined

\* A string is a sequence of tokens: ":" or a word without a colon.  An empty
\* segment is the absence of a word between two colons.
RECURSIVE splitFrom(_, _, _, _)
splitFrom(str, i, segment, parts) ==
  IF i > Len(str) THEN Append(parts, segment)
  ELSE IF str[i] = ":" THEN splitFrom(str, i + 1, "", Append(parts, segment))
  ELSE splitFrom(str, i + 1, str[i], parts)

\* sessionKey.split(":")
split(str) == splitFrom(str, 1, "", <<>>)

\* Array.prototype.join(":"), the inverse of split.
RECURSIVE joinColon(_)
joinColon(parts) ==
  IF Len(parts) = 0 THEN <<>>
  ELSE (IF parts[1] = "" THEN <<>> ELSE <<parts[1]>>)
         \o (IF Len(parts) = 1 THEN <<>> ELSE <<":">> \o joinColon(Tail(parts)))

MainSession == <<"agent", ":", "main", ":", "main">>

\* deriveAccessLevel
deriveAccessLevel(key) ==
  IF key = MainSession THEN "private"
  ELSE LET parts == split(key)
           type == IF Len(parts) >= 4 THEN parts[4] ELSE Undefined
           id == IF Len(parts) >= 5 THEN parts[5] ELSE Undefined
       IN IF Len(parts) < 4 THEN "public"
          ELSE IF type = "dm" /\ id \notin {Undefined, ""} /\ getProperty(id) # Undefined
            THEN getProperty(id)
          ELSE IF type = "group" THEN "trusted"
          ELSE IF type = "dm" THEN "public"
          ELSE "public"

\* Array.prototype.indexOf: 0-based, -1 when absent.
indexOf(array, x) ==
  IF \E i \in DOMAIN array : array[i] = x
    THEN (CHOOSE i \in DOMAIN array : array[i] = x /\ \A j \in 1..(i - 1) : array[j] # x) - 1
    ELSE -1

canAccessStrict(current, target) ==
  indexOf(ACCESS_LEVELS, current) > indexOf(ACCESS_LEVELS, target)

\* canAccess
canAccess(current, target) ==
  indexOf(ACCESS_LEVELS, current) >= indexOf(ACCESS_LEVELS, target)

\* Words of the session keys the model passes.
KeyWords == {"", "agent", "main", "dm", "group", "192802611", "constructor"}

SessionKeys == {joinColon(parts) : parts \in UNION {[1..n -> KeyWords] : n \in 1..MaxSegs}}

TaskIdle ==
  /\ tasksFile = <<>> /\ today = 1 /\ uuids = 0
  /\ call = [tool |-> "none", action |-> "", taskId |-> 0, newStatus |-> "",
             filter |-> "", ran |-> {}]
  /\ result = [success |-> TRUE, tasks |-> <<>>, executed |-> -1, error |-> ""]
  /\ prevFile = <<>>

\* A call of deriveAccessLevel or a call of canAccess is about to be made.
InitAccess ==
  /\ \/ /\ sessionKey \in SessionKeys
        /\ currentLevel = "" /\ targetLevel = ""
     \/ /\ sessionKey = <<>>
        /\ currentLevel \in Levels /\ targetLevel \in Levels
  /\ derived = "" /\ allowed = FALSE /\ returned = FALSE
  /\ TaskIdle
  /\ BootIdle
  /\ FilesIdle
  /\ AtomicIdle

Derive ==
  /\ ~ returned /\ currentLevel = ""
  /\ derived' = deriveAccessLevel(sessionKey)
  /\ returned' = TRUE
  /\ UNCHANGED <<sessionKey, currentLevel, targetLevel, allowed, taskVars, bootVars,
                 fileVars, dirs, atomicVars>>

CanAccess ==
  /\ ~ returned /\ currentLevel # ""
  /\ allowed' = canAccess(currentLevel, targetLevel)
  /\ returned' = TRUE
  /\ UNCHANGED <<sessionKey, currentLevel, targetLevel, derived, taskVars, bootVars,
                 fileVars, dirs, atomicVars>>

NextAccess == Derive \/ CanAccess

SpecAccess == InitAccess /\ [][NextAccess]_vars

\* ======================================================================
\* The bootstrap hook handler: src/unnamed/part_001, lines 22-101
\* ======================================================================

\* A path is the sequence of its "/"-separated segments.  An entry of
\* context.bootstrapFiles is a string, an object with a path, or an object
\* without one (kind "nopath").
Entry(kind, path) == [kind |-> kind, path |-> path]

\* typeof file === "string" ? file : file.path
pathOf(file) == IF file.kind = "nopath" THEN <<Undefined>> ELSE file.path

\* path.includes(pattern) for a pattern of whole segments; slash tells whether
\* the pattern ends with "/", so that a further segment must follow.
includes(path, pattern, slash) ==
  \E i \in 0..(Len(path) - Len(pattern)) :
    /\ \A k \in DOMAIN pattern : path[i + k] = pattern[k]
    /\ slash => i + Len(pattern) < Len(path)

\* path.endsWith("MEMORY.md")
endsWithMemoryMd(path) == Len(path) > 0 /\ path[Len(path)] = "MEMORY.md"

keepFileFamilyInverted(path, accessLevel) ==
  ~ \/ endsWithMemoryMd(path)
    \/ includes(path, <<"memory", "private", "MEMORY.md">>, FALSE)
    \/ includes(path, <<"memory", "private">>, TRUE) /\ accessLevel # "private"
    \/ includes(path, <<"memory", "family">>, TRUE) /\ canAccess(accessLevel, "family")

\* The callback of bootstrapFiles.filter (lines 45-65): TRUE to keep the file.
keepFile(path, accessLevel) ==
  ~ \/ endsWithMemoryMd(path)
    \/ includes(path, <<"memory", "private", "MEMORY.md">>, FALSE)
    \/ includes(path, <<"memory", "private">>, TRUE) /\ accessLevel # "private"
    \/ includes(path, <<"memory", "family">>, TRUE) /\ ~ canAccess(accessLevel, "family")

filterBootstrapFilesNoMemoryRule(files, accessLevel) ==
  IF accessLevel = "private" THEN [threw |-> FALSE, files |-> files]
  ELSE IF \E i \in DOMAIN files : files[i].kind = "nopath"
    THEN [threw |-> TRUE, files |-> files]
    ELSE [threw |-> FALSE,
          files |-> SelectSeq(files, LAMBDA file :
                      ~ \/ includes(pathOf(file), <<"memory", "private">>, TRUE)
                        \/ includes(pathOf(file), <<"memory", "family">>, TRUE)
                             /\ ~ canAccess(accessLevel, "family"))]

\* Lines 43-66: the list after the filter, or threw when path.endsWith is
\* called on the undefined path of an entry; context.bootstrapFiles is
\* assigned only when filter returns.
filterBootstrapFiles(files, accessLevel) ==
  IF accessLevel = "private" THEN [threw |-> FALSE, files |-> files]
  ELSE IF \E i \in DOMAIN files : files[i].kind = "nopath"
    THEN [threw |-> TRUE, files |-> files]
    ELSE [threw |-> FALSE,
          files |-> SelectSeq(files, LAMBDA file : keepFile(pathOf(file), accessLevel))]

\* existingPaths.some((p) => p.includes(daily)): "true", "false", or "throw"
\* when an undefined path is reached before a match.
RECURSIVE someIncludes(_, _, _)
someIncludes(files, i, daily) ==
  IF i > Len(files) THEN "false"
  ELSE IF files[i].kind = "nopath" THEN "throw"
  ELSE IF includes(files[i].path, daily, FALSE) THEN "true"
  ELSE someIncludes(files, i + 1, daily)

\* memory/<level>/<date>-daily.md; the dates are those of the day of the call.
dailyPath(accessLevel, date) == <<"memory", accessLevel, date>>

Today == "TODAY-daily.md"
Yesterday == "YESTERDAY-daily.md"

injectDailyAlways(files, accessLevel, workspaceDir) ==
  [threw |-> \E i \in DOMAIN files : files[i].kind = "nopath",
   files |-> files \o << Entry("object", <<workspaceDir>> \o dailyPath(accessLevel, Today)),
                         Entry("object", <<workspaceDir>> \o dailyPath(accessLevel, Yesterday)) >>]

\* Lines 68-93: the daily files pushed after the filter.
injectDaily(files, accessLevel, workspaceDir) ==
  LET hasToday == someIncludes(files, 1, dailyPath(accessLevel, Today))
      hasYesterday == someIncludes(files, 1, dailyPath(accessLevel, Yesterday))
      withToday == IF hasToday = "false"
                     THEN Append(files, Entry("object", <<workspaceDir>> \o dailyPath(accessLevel, Today)))
                     ELSE files
  IN IF hasToday = "throw" THEN [threw |-> TRUE, files |-> files]
     ELSE IF hasYesterday = "throw" THEN [threw |-> TRUE, files |-> withToday]
     ELSE [threw |-> FALSE,
           files |-> IF hasYesterday = "false"
                       THEN Append(withToday, Entry("object", <<workspaceDir>> \o dailyPath(accessLevel, Yesterday)))
                       ELSE withToday]

\* event.sessionKey || context.sessionKey || "": the empty string is falsy.
\* The access to context.sessionKey is skipped when event.sessionKey is set.
resolveSessionKey(ev) == IF ev.sessionKey # <<>> THEN ev.sessionKey ELSE ev.ctxSessionKey

\* The handler.  A TypeError raised outside the try block (reading a property
\* of an undefined context) rejects the promise the handler returns.  The
\* host may deliver the event again, with the context the handler left.
handler ==
  /\ outcome \in {"pending", "returned"}
  /\ Len(inputs) < MaxDeliveries
  /\ inputs' = Append(inputs, bootstrapFiles)
  /\ IF event.type # "agent" \/ event.action # "bootstrap"
       THEN outcome' = "returned" /\ UNCHANGED bootstrapFiles
     ELSE IF ~ event.hasContext
       THEN outcome' = "threw" /\ UNCHANGED bootstrapFiles
     ELSE IF event.workspaceDir = "" \/ ~ event.hasBootstrapFiles
       THEN outcome' = "returned" /\ UNCHANGED bootstrapFiles
     ELSE LET accessLevel == deriveAccessLevel(resolveSessionKey(event))
              filtered == filterBootstrapFiles(bootstrapFiles, accessLevel)
              injected == injectDaily(filtered.files, accessLevel, event.workspaceDir)
          IN /\ outcome' = "returned"
             /\ bootstrapFiles' = IF filtered.threw THEN filtered.files ELSE injected.files
  /\ UNCHANGED <<event, taskVars, accessVars, fileVars, dirs, atomicVars>>

\* Entries of the bootstrap lists the host hands over.
BootEntries ==
  { Entry("string", <<"memory", "private", "MEMORY.md">>),
    Entry("object", <<"memory", "private", "diary.md">>),
    Entry("string", <<"memory", "family", "notes.md">>),
    Entry("object", <<"memory", "public", "info.md">>),
    Entry("string", <<"/ws", "MEMORY.md">>),
    Entry("string", <<"/ws", "memory", "trusted", Today>>),
    Entry("nopath", <<>>) }

\* Session keys of the events: the main session, a group chat, the DM of a
\* known user, of an unknown user and of a user named like a property of
\* Object.prototype, and a key that is no session key.
BootKeys ==
  { MainSession,
    joinColon(<<"agent", "main", "telegram", "group", "192802611">>),
    joinColon(<<"agent", "main", "telegram", "dm", "192802611">>),
    joinColon(<<"agent", "main", "telegram", "dm", "42">>),
    joinColon(<<"agent", "main", "telegram", "dm", "constructor">>),
    joinColon(<<"hello">>) }

Shape(type, action, key, hasContext, ctxKey, workspaceDir, hasFiles) ==
  [type |-> type, action |-> action, sessionKey |-> key, hasContext |-> hasContext,
   ctxSessionKey |-> ctxKey, workspaceDir |-> workspaceDir,
   hasBootstrapFiles |-> hasFiles]

\* The events the host delivers, but for their bootstrap list: bootstrap
\* events with the session key on the event or in the context, with and
\* without workspaceDir, without a bootstrap list, without a context, and
\* events of other kinds.
BootShapes ==
  {Shape("agent", "bootstrap", <<>>, TRUE, key, dir, TRUE) :
     key \in BootKeys \cup {<<>>}, dir \in {"", "/ws"}}
    \cup {Shape("agent", "bootstrap", key, TRUE, <<>>, "/ws", TRUE) : key \in BootKeys}
    \cup {Shape("agent", "bootstrap", key, TRUE, <<>>, "/ws", FALSE) : key \in BootKeys}
    \cup {Shape("agent", "bootstrap", key, FALSE, <<>>, "", FALSE) : key \in BootKeys \cup {<<>>}}
    \cup {Shape("command", "new", MainSession, TRUE, <<>>, "/ws", TRUE),
          Shape("agent", "new", MainSession, TRUE, <<>>, "/ws", TRUE)}

BootLists == SeqsUpTo(BootEntries, MaxFiles)

InitBoot ==
  /\ \E shape \in BootShapes :
       \E files \in IF shape.hasBootstrapFiles THEN BootLists ELSE {<<>>} :
         /\ event = [bootstrapFiles |-> files] @@ shape
         /\ bootstrapFiles = files
  /\ outcome = "pending"
  /\ inputs = <<>>
  /\ TaskIdle
  /\ AccessIdle
  /\ FilesIdle
  /\ AtomicIdle

NextBoot == handler

SpecBoot == InitBoot /\ [][NextBoot]_vars

\* ======================================================================
\* atomicWrite step by step, and a reader: src/unnamed/part_005, lines 55-97
\* ======================================================================

\* stat(path) succeeds.
exists(files, path) == path \in DOMAIN files

\* The directory entry of path is made to hold content.
put(files, path, content) ==
  [q \in DOMAIN files \cup {path} |-> IF q = path THEN content ELSE files[q]]

\* The directory entry of path is removed.
remove(files, path) == [q \in DOMAIN files \ {path} |-> files[q]]

\* What readFile(path) gives a reader: the content, or ENOENT.
readFile(files, path) ==
  IF exists(files, path) THEN files[path] ELSE [kind |-> "absent"]

tmpPathInPlace(path) == path

\* path + ".tmp"
tmpPath(path) == [path EXCEPT !.tmp = TRUE]

\* join(dirname(path), ".backups")
backupDir(path) == Append(dirname(path), ".backups")

\* join(backupDir, `${basename}.${timestamp}`)
backupPath(path, timestamp) ==
  [path EXCEPT !.dir = backupDir(path), !.stamp = timestamp]

backupFileSkipped(files, dirset, path, timestamp) ==
  [fs |-> files, dirs |-> dirset]

\* backupFile: nothing when stat fails, else the backup directory is made and
\* the file copied into it (copyFile replaces a file of the same name).
backupFile(files, dirset, path, timestamp) ==
  IF ~ exists(files, path)
    THEN [fs |-> files, dirs |-> dirset]
    ELSE [fs |-> put(files, backupPath(path, timestamp), files[path]),
          dirs |-> mkdir(dirset, backupDir(path))]

\* The directory of a path exists (the current directory always does).
hasDir(dirset, path) == dirname(path) = <<>> \/ dirname(path) \in dirset

\* The atomicWrite call in progress: where it stands (pc), its arguments, how
\* many chunks writeFile has written, and what the path held when the call
\* started.
AtomicWrite(pc, path, content, backup, createDirs, written, before) ==
  [pc |-> pc, path |-> path, content |-> content, backup |-> backup,
   createDirs |-> createDirs, written |-> written, before |-> before]

\* Lines 62-64: mkdir(dirname(path), { recursive: true }) when createDirs.
atomicWriteMkdir ==
  /\ aw.pc = "mkdir"
  /\ dirs' = IF aw.createDirs THEN mkdir(dirs, dirname(aw.path)) ELSE dirs
  /\ aw' = [aw EXCEPT !.pc = "backup"]
  /\ UNCHANGED <<fs, now, calls, DEFAULT_STATE, observed, taskVars, accessVars, bootVars>>

\* Lines 66-68: backupFile(path) when backup.
atomicWriteBackup ==
  /\ aw.pc = "backup"
  /\ LET made == backupFile(fs, dirs, aw.path, now)
     IN IF aw.backup
          THEN fs' = made.fs /\ dirs' = made.dirs
          ELSE UNCHANGED <<fs, dirs>>
  /\ aw' = [aw EXCEPT !.pc = "open"]
  /\ UNCHANGED <<now, calls, DEFAULT_STATE, observed, taskVars, accessVars, bootVars>>

\* Line 71, writeFile(tmpPath, ...) opening the file: it is created, or
\* truncated when it exists; ENOENT when its directory does not exist.
atomicWriteOpen ==
  /\ aw.pc = "open"
  /\ IF hasDir(dirs, aw.path)
       THEN /\ fs' = put(fs, tmpPath(aw.path), Text(<<>>))
            /\ aw' = [aw EXCEPT !.pc = "write", !.written = 0]
       ELSE /\ aw' = [aw EXCEPT !.pc = "failed"]
            /\ UNCHANGED fs
  /\ UNCHANGED <<dirs, now, calls, DEFAULT_STATE, observed, taskVars, accessVars, bootVars>>

\* Line 71, writeFile writing the next chunk of the content, or closing the
\* file when all of it is written.
atomicWriteChunk ==
  /\ aw.pc = "write"
  /\ IF aw.written < Len(aw.content)
       THEN /\ fs' = put(fs, tmpPath(aw.path),
                         Text(Append(fs[tmpPath(aw.path)].chars, aw.content[aw.written + 1])))
            /\ aw' = [aw EXCEPT !.written = @ + 1]
       ELSE /\ aw' = [aw EXCEPT !.pc = "rename"]
            /\ UNCHANGED fs
  /\ UNCHANGED <<dirs, now, calls, DEFAULT_STATE, observed, taskVars, accessVars, bootVars>>

\* Line 75: rename(tmpPath, path) replaces the directory entry of path in one
\* step.
atomicWriteRename ==
  /\ aw.pc = "rename"
  /\ fs' = remove(put(fs, aw.path, fs[tmpPath(aw.path)]), tmpPath(aw.path))
  /\ aw' = [aw EXCEPT !.pc = "done"]
  /\ UNCHANGED <<dirs, now, calls, DEFAULT_STATE, observed, taskVars, accessVars, bootVars>>

\* The step the call is at fails (EACCES, ENOSPC, EIO ...) and the call
\* rejects; what was done so far stays.
atomicWriteFail ==
  /\ aw.pc \in {"mkdir", "backup", "open", "write", "rename"}
  /\ aw' = [aw EXCEPT !.pc = "failed"]
  /\ UNCHANGED <<fs, dirs, now, calls, DEFAULT_STATE, observed, taskVars, accessVars, bootVars>>

\* Another party reads the path (safeReadFile); the call need not be over.
reader ==
  /\ aw.pc # "idle"
  /\ observed' = readFile(fs, aw.path)
  /\ UNCHANGED <<fs, dirs, now, calls, DEFAULT_STATE, aw, taskVars, accessVars, bootVars>>

\* The file written: memory/emotional-state.json of the workspace.
StateFile == Path(MemoryDir, "emotional-state", "json")

\* memory/emotional-state.json.tmp, left by a call that failed.
StaleTmp == [StateFile EXCEPT !.tmp = TRUE]

\* Contents the path may hold before the call, and chunks of the new content.
OldContents == {Text(<<"o1", "o2">>), Text(<<"n1">>)}

NewChunks == {"n1", "n2"}

\* An atomicWrite(path, content, options) is called on an existing file; a
\* ".tmp" file may be left from a call that failed.
InitAtomic ==
  /\ \E old \in OldContents, stale \in BOOLEAN :
       /\ fs = IF stale
                 THEN put(put(<<>>, StateFile, old), StaleTmp, Text(<<"o1">>))
                 ELSE put(<<>>, StateFile, old)
       /\ \E content \in SeqsUpTo(NewChunks, MaxChunks), backup \in BOOLEAN, createDirs \in BOOLEAN :
            aw = AtomicWrite("mkdir", StateFile, content, backup, createDirs, 0, old)
  /\ dirs = mkdir({}, MemoryDir)
  /\ observed = [kind |-> "none"]
  /\ now = 1 /\ calls = 0
  /\ DEFAULT_STATE = [current_state |-> DefaultCurrentState, recent_wakes |-> <<>>]
  /\ TaskIdle
  /\ AccessIdle
  /\ BootIdle

NextAtomic ==
  \/ atomicWriteMkdir
  \/ atomicWriteBackup
  \/ atomicWriteOpen
  \/ atomicWriteChunk
  \/ atomicWriteRename
  \/ atomicWriteFail
  \/ reader

SpecAtomic == InitAtomic /\ [][NextAtomic]_vars

\* ======================================================================
\* The file tools, one call at a time: src/unnamed/part_003 (dashboard-note),
\* src/unnamed/part_004 (memory-update), src/unnamed/part_005 (utils/fs),
\* src/src/tools/emotional-state.ts, src/src/tools/thread-marker.ts
\* ======================================================================

\* The text JSON.stringify makes of a value.
Json(value) == [kind |-> "json", value |-> value]

\* writeFile(path, content) from open to close: ENOENT when the directory of
\* the path does not exist.
writeFile(files, dirset, path, content) ==
  IF hasDir(dirset, path)
    THEN [threw |-> FALSE, fs |-> put(files, path, content)]
    ELSE [threw |-> TRUE, fs |-> files]

\* rename(from, to): ENOENT when from does not exist.
rename(files, from, to) ==
  IF exists(files, from)
    THEN [threw |-> FALSE, fs |-> remove(put(files, to, files[from]), from)]
    ELSE [threw |-> TRUE, fs |-> files]

\* atomicWrite with no other call of it under way.
atomicWrite(files, dirset, path, content, backup, createDirs, timestamp) ==
  LET made == IF createDirs THEN mkdir(dirset, dirname(path)) ELSE dirset
      kept == IF backup THEN backupFile(files, made, path, timestamp)
              ELSE [fs |-> files, dirs |-> made]
      written == writeFile(kept.fs, kept.dirs, tmpPath(path), content)
      renamed == rename(written.fs, tmpPath(path), path)
  IN IF written.threw THEN [threw |-> TRUE, fs |-> kept.fs, dirs |-> kept.dirs]
     ELSE [threw |-> renamed.threw, fs |-> renamed.fs, dirs |-> kept.dirs]

fileExistsNever(files, path) == FALSE

\* fileExists: stat(path) succeeds.
fileExists(files, path) == exists(files, path)

\* readJSON: null when the file is missing, the parsed value, or the error
\* "Invalid JSON in <path>" when JSON.parse rejects the content.
readJSON(files, path) ==
  IF ~ exists(files, path) THEN [threw |-> FALSE, null |-> TRUE]
  ELSE IF files[path].kind = "json"
    THEN [threw |-> FALSE, null |-> FALSE, value |-> files[path].value]
    ELSE [threw |-> TRUE, null |-> FALSE]

\* writeJSON: atomicWrite of JSON.stringify(data, null, 2) + "\n".
writeJSON(files, dirset, path, data, timestamp) ==
  atomicWrite(files, dirset, path, Json(data), FALSE, TRUE, timestamp)

\* appendToFile: the file is created when it does not exist.
appendToFile(files, dirset, path, chars) ==
  [fs |-> put(files, path,
              Text((IF exists(files, path) THEN files[path].chars ELSE <<>>) \o chars)),
   dirs |-> mkdir(dirset, dirname(path))]

\* A promise that rejects, and one that resolves (with a value, if any).
Thrown(message) == [threw |-> TRUE, error |-> message]

Returned(value) == [threw |-> FALSE, error |-> "", value |-> value]

\* String.prototype.trim on a sequence of characters.
RECURSIVE trimChars(_)
trimChars(chars) ==
  IF chars = <<>> THEN <<>>
  ELSE IF Head(chars) = " " THEN trimChars(Tail(chars))
  ELSE IF chars[Len(chars)] = " " THEN trimChars(SubSeq(chars, 1, Len(chars) - 1))
  ELSE chars

\* ---------------------------------------------------------- memory-update

\* path.includes("..") of a segment or base name.
hasDotDot(segment) == segment \in {"..", "notes..old"}

\* ALLOWED_PATTERNS: /^MEMORY\.md$/ and /^memory\/.*\.(md|json)$/
ALLOWED_PATTERNS(path) ==
  \/ path.dir = <<>> /\ path.name = "MEMORY" /\ path.ext = "md"
  \/ Len(path.dir) >= 1 /\ path.dir[1] = "memory" /\ path.ext \in {"md", "json"}

\* validateMemoryPath
validateMemoryPath(path) ==
  IF hasDotDot(path.name) \/ \E i \in DOMAIN path.dir : hasDotDot(path.dir[i]) THEN FALSE
  ELSE IF Len(path.dir) >= 1 /\ path.dir[1] = "" THEN FALSE
  ELSE ALLOWED_PATTERNS(path)

\* Every file tool call takes its turn and some time.
Elapse ==
  /\ calls' = calls + 1
  /\ now' \in {now, now + 1}

\* memoryUpdate(filePath, operation, content)
memoryUpdate(filePath, operation, content) ==
  LET made == mkdir(dirs, dirname(filePath))
      kept == backupFile(fs, made, filePath, now)
      appended == appendToFile(kept.fs, kept.dirs, filePath, content)
      replaced == atomicWrite(kept.fs, kept.dirs, filePath, Text(content), FALSE, TRUE, now)
      created == atomicWrite(fs, made, filePath, Text(content), FALSE, TRUE, now)
  IN /\ Elapse
     /\ call' = [tool |-> "memoryUpdate", filePath |-> filePath,
                 operation |-> operation, content |-> content]
     /\ IF content = <<>> \/ trimChars(content) = <<>>
          THEN /\ result' = Thrown("Content cannot be empty")
               /\ UNCHANGED <<fs, dirs>>
        ELSE IF operation = "append"
          THEN /\ fs' = appended.fs /\ dirs' = appended.dirs
               /\ result' = Returned("")
        ELSE IF operation = "replace"
          THEN /\ fs' = replaced.fs /\ dirs' = replaced.dirs
               /\ result' = IF replaced.threw THEN Thrown("ENOENT") ELSE Returned("")
        ELSE IF operation = "create"
          THEN IF fileExists(fs, filePath)
                 THEN /\ result' = Thrown("File already exists")
                      /\ dirs' = made
                      /\ UNCHANGED fs
                 ELSE /\ fs' = created.fs /\ dirs' = created.dirs
                      /\ result' = IF created.threw THEN Thrown("ENOENT") ELSE Returned("")
        ELSE /\ result' = Thrown("Unknown operation")
             /\ dirs' = made
             /\ UNCHANGED fs
     /\ UNCHANGED <<tasksFile, today, uuids, prevFile, DEFAULT_STATE,
                    accessVars, bootVars, atomicVars>>

\* ---------------------------------------------------------- dashboard-note

MAX_MESSAGE_LENGTH == 500

\* A message: the number of white-space characters at its start and end and
\* the number of characters between them.
Message(lead, body, trail) == [lead |-> lead, body |-> body, trail |-> trail]

\* message.trim()
trimMessage(message) == Message(0, message.body, 0)

\* message.length
length(message) == message.lead + message.body + message.trail

validateNoteContentNone(message, emoji) == ""

\* validateNoteContent: the error, "" when the content is valid.
validateNoteContent(message, emoji) ==
  IF length(trimMessage(message)) = 0 THEN "Message cannot be empty"
  ELSE IF length(trimMessage(message)) > MAX_MESSAGE_LENGTH THEN "Message too long"
  ELSE ""

\* updateDashboardNote(noteFile, message, emoji)
updateDashboardNote(noteFile, message, emoji) ==
  LET error == validateNoteContent(message, emoji)
      note == [message |-> trimMessage(message), emoji |-> emoji, timestamp |-> now]
      written == writeJSON(fs, dirs, noteFile, note, now)
  IN /\ Elapse
     /\ call' = [tool |-> "updateDashboardNote", noteFile |-> noteFile,
                 message |-> message, emoji |-> emoji]
     /\ IF error # ""
          THEN /\ result' = Thrown(error)
               /\ UNCHANGED <<fs, dirs>>
          ELSE /\ fs' = written.fs /\ dirs' = written.dirs
               /\ result' = IF written.threw THEN Thrown("ENOENT") ELSE Returned(note)
     /\ UNCHANGED <<tasksFile, today, uuids, prevFile, DEFAULT_STATE,
                    accessVars, bootVars, atomicVars>>

\* readCurrentNote(noteFile)
readCurrentNote(noteFile) ==
  LET read == readJSON(fs, noteFile)
  IN /\ Elapse
     /\ call' = [tool |-> "readCurrentNote", noteFile |-> noteFile]
     /\ result' = IF read.threw THEN Thrown("Invalid JSON")
                  ELSE IF read.null THEN Returned("null")
                  ELSE Returned(read.value)
     /\ UNCHANGED <<fs, dirs, tasksFile, today, uuids, prevFile, DEFAULT_STATE,
                    accessVars, bootVars, atomicVars>>

\* --------------------------------------------------------- emotional-state

MAX_RECENT_WAKES == 10

\* An EmotionalState (decay_hours and notes are never changed and left out).
EmotionalState(current_state, recent_wakes) ==
  [current_state |-> current_state, recent_wakes |-> recent_wakes]

\* An EmotionalStateUpdate; Undefined for a field that is not given.
Update(primary, threads, question) ==
  [primary |-> primary, threads |-> threads, question |-> question]

\* initEmotionalState(stateFile)
initEmotionalState(stateFile) ==
  LET existing == readJSON(fs, stateFile)
      written == writeJSON(fs, dirs, stateFile, DEFAULT_STATE, now)
  IN /\ Elapse
     /\ call' = [tool |-> "initEmotionalState", stateFile |-> stateFile]
     /\ IF existing.threw
          THEN /\ result' = Thrown("Invalid JSON")
               /\ UNCHANGED <<fs, dirs>>
        ELSE IF ~ existing.null
          THEN /\ result' = Returned(existing.value)
               /\ UNCHANGED <<fs, dirs>>
        ELSE /\ fs' = written.fs /\ dirs' = written.dirs
             /\ result' = IF written.threw THEN Thrown("ENOENT") ELSE Returned(DEFAULT_STATE)
     /\ UNCHANGED <<tasksFile, today, uuids, prevFile, DEFAULT_STATE,
                    accessVars, bootVars, atomicVars>>

\* addWake without the slice(0, MAX_RECENT_WAKES).
addWakeUncapped(recent_wakes, update, timestamp) ==
  IF update.threads \in {Undefined, ""} /\ update.question \in {Undefined, ""}
    THEN recent_wakes
    ELSE <<[timestamp |-> timestamp, threads |-> update.threads,
            question |-> update.question]>> \o recent_wakes

\* Lines 113-130: the wake entry is put first and the list cut to
\* MAX_RECENT_WAKES, when threads or a question is given (and not empty).
addWake(recent_wakes, update, timestamp) ==
  IF update.threads \in {Undefined, ""} /\ update.question \in {Undefined, ""}
    THEN recent_wakes
    ELSE LET wakes == <<[timestamp |-> timestamp, threads |-> update.threads,
                         question |-> update.question]>> \o recent_wakes
         IN SubSeq(wakes, 1, IF Len(wakes) < MAX_RECENT_WAKES THEN Len(wakes)
                                ELSE MAX_RECENT_WAKES)

\* updateEmotionalState(stateFile, update).  When the file is missing, state
\* is { ...DEFAULT_STATE, recent_wakes: [] }, whose current_state is the
\* object DEFAULT_STATE.current_state itself: assigning to its fields (lines
\* 103-111) changes DEFAULT_STATE.
updateEmotionalState(stateFile, update) ==
  LET read == readJSON(fs, stateFile)
      state == IF read.null THEN EmotionalState(DEFAULT_STATE.current_state, <<>>)
               ELSE read.value
      current == IF update.primary # Undefined
                   THEN [state.current_state EXCEPT !.primary = update.primary]
                   ELSE state.current_state
      updated == EmotionalState(current, addWake(state.recent_wakes, update, now))
      written == writeJSON(fs, dirs, stateFile, updated, now)
  IN /\ Elapse
     /\ call' = [tool |-> "updateEmotionalState", stateFile |-> stateFile,
                 update |-> update]
     /\ IF read.threw
          THEN /\ result' = Thrown("Invalid JSON")
               /\ UNCHANGED <<fs, dirs, DEFAULT_STATE>>
          ELSE /\ fs' = written.fs /\ dirs' = written.dirs
               /\ DEFAULT_STATE' = IF read.null
                                     THEN [DEFAULT_STATE EXCEPT !.current_state = current]
                                     ELSE DEFAULT_STATE
               /\ result' = IF written.threw THEN Thrown("ENOENT") ELSE Returned(updated)
     /\ UNCHANGED <<tasksFile, today, uuids, prevFile, accessVars, bootVars, atomicVars>>

\* ----------------------------------------------------------- thread-marker

VALID_IMPORTANCE == {"low", "medium", "high"}

\* validateParams of thread-marker.ts: the error, "" for null.
validateThreadParams(params) ==
  IF params.topic = "" \/ trim(params.topic) = "" THEN "Topic cannot be empty"
  ELSE IF params.question = "" \/ trim(params.question) = "" THEN "Question cannot be empty"
  ELSE IF params.importance # "" /\ params.importance \notin VALID_IMPORTANCE
    THEN "Invalid importance"
  ELSE ""

\* parseWhen: "tomorrow", "next week" and "today" are taken from the clock,
\* any other string is kept as it is; 0 for undefined.
parseWhen(when, day) ==
  IF when = NoDueDate THEN 0
  ELSE IF when.word = "tomorrow" THEN day + 1
  ELSE IF when.word = "next week" THEN day + 7
  ELSE IF when.word = "today" THEN day
  ELSE when.day

\* readThreadsFile that never finds a file.
readThreadsFileEmpty(files, threadsPath) == [threads |-> <<>>]

\* readThreadsFile: the parsed file; { threads: [] } when readFile or
\* JSON.parse throws.
readThreadsFile(files, threadsPath) ==
  IF exists(files, threadsPath) /\ files[threadsPath].kind = "json"
    THEN files[threadsPath].value
    ELSE [threads |-> <<>>]

\* join(memoryDir, "threads.json")
ThreadsFile == Path(MemoryDir, "threads", "json")

ThreadParams(topic, question, when, importance) ==
  [topic |-> topic, question |-> question, when |-> when, importance |-> importance]

\* threadMarker(params).  threadsData.threads.push throws a TypeError, which
\* the catch block reports, when the file holds JSON without a threads array.
threadMarker(params) ==
  LET validationError == validateThreadParams(params)
      made == mkdir(dirs, MemoryDir)
      threadsData == readThreadsFile(fs, ThreadsFile)
      threadId == randomUUID(uuids + 1)
      thread == [id |-> threadId, timestamp |-> now, topic |-> trim(params.topic),
                 question |-> trim(params.question),
                 importance |-> IF params.importance = "" THEN "medium" ELSE params.importance,
                 status |-> "open", revisit |-> parseWhen(params.when, today)]
      written == writeFile(fs, made, ThreadsFile,
                   Json([threadsData EXCEPT !.threads = Append(@, thread)]))
  IN /\ Elapse
     /\ call' = [tool |-> "threadMarker", params |-> params]
     /\ IF validationError # ""
          THEN /\ result' = [success |-> FALSE, threadId |-> 0, error |-> validationError]
               /\ UNCHANGED <<fs, dirs, uuids>>
        ELSE IF "threads" \notin DOMAIN threadsData
          THEN /\ result' = [success |-> FALSE, threadId |-> 0, error |-> "Failed to mark thread"]
               /\ dirs' = made
               /\ uuids' = uuids + 1
               /\ UNCHANGED fs
        ELSE /\ fs' = written.fs /\ dirs' = made
             /\ uuids' = uuids + 1
             /\ result' = [success |-> TRUE, threadId |-> threadId, error |-> ""]
     /\ UNCHANGED <<tasksFile, today, prevFile, DEFAULT_STATE,
                    accessVars, bootVars, atomicVars>>

\* ------------------------------------------------------- the calls made

\* The note file of the dashboard.
NoteFile == Path(Append(WorkspaceRoot, "dashboard"), "note", "json")

\* MEMORY.md and a file under memory/, relative to the current directory and
\* absolute, and paths that are no memory files.
MemoryFile == Path(<<>>, "MEMORY", "md")

MemoryPaths ==
  { MemoryFile,
    Path(<<"memory", "private", "deep">>, "notes", "md"),
    Path(WorkspaceRoot, "MEMORY", "md"),
    Path(<<"", "etc">>, "passwd", ""),
    Path(<<"memory", "..", "..", "etc">>, "passwd", ""),
    Path(<<"memory">>, "script", "sh"),
    Path(<<>>, "random-file", "txt") }

\* The memoryUpdate calls: every operation with content, on every path, and
\* the calls without content or with an operation that does not exist.
MemoryCalls ==
  (MemoryPaths \X {"append", "replace", "create"} \X {<<"n", "e", "w">>})
    \cup ({MemoryFile} \X {"append", "replace", "create"} \X {<<>>, <<" ", " ">>})
    \cup {<<MemoryFile, "delete", <<"n", "e", "w">>>>}

\* Messages of every kind: empty, blank, short, of the greatest length with
\* and without white space around it, and too long.
Messages ==
  { Message(0, 0, 0), Message(2, 0, 0), Message(0, 5, 0),
    Message(1, MAX_MESSAGE_LENGTH, 1), Message(0, MAX_MESSAGE_LENGTH + 1, 0) }

Updates ==
  { Update(Undefined, Undefined, Undefined),
    Update("joy", Undefined, Undefined),
    Update(Undefined, "a thread", "") }

ThreadCalls ==
  { ThreadParams(" buy milk ", " buy milk ", NoDueDate, ""),
    ThreadParams(" buy milk ", " buy milk ", [word |-> "tomorrow", day |-> 0], "high"),
    ThreadParams("", " buy milk ", NoDueDate, ""),
    ThreadParams("  ", " buy milk ", NoDueDate, ""),
    ThreadParams(" buy milk ", "", NoDueDate, ""),
    ThreadParams(" buy milk ", " buy milk ", NoDueDate, "urgent") }

\* The quickCapture calls that write no task.
CaptureParamsNoTask ==
  {params \in CaptureParams :
     \/ params.type # "task"
     \/ validateParams(params.content, params.type, params.priority) # ""}

\* What the single-record files hold before the first call: nothing, a value
\* written by the tools, or text that is not JSON.
ValidFiles ==
  put(put(put(<<>>,
    StateFile, Json(EmotionalState(DefaultCurrentState, <<>>))),
    NoteFile, Json([message |-> Message(0, 5, 0), emoji |-> "", timestamp |-> 0])),
    ThreadsFile, Json([threads |-> <<>>]))

MalformedFiles ==
  put(put(put(<<>>,
    StateFile, Text(<<"n", "o", "t", " ", "j", "s", "o", "n">>)),
    NoteFile, Text(<<"{", "{">>)),
    ThreadsFile, Text(<<"{", "{">>))

NoThreadsFiles ==
  put(<<>>, ThreadsFile, Json([notes |-> <<>>]))

\* MEMORY.md: missing, present, or present with a backup made in this very
\* millisecond by an update that came before.
WithMemory(files, memory) ==
  CASE memory = "missing" -> files
    [] memory = "present" -> put(files, MemoryFile, Text(<<"o", "l", "d">>))
    [] memory = "backed up" ->
         put(put(files, MemoryFile, Text(<<"o", "l", "d">>)),
             backupPath(MemoryFile, 1), Text(<<"o">>))

\* A workspace before the first call of a file tool.
InitFiles ==
  /\ \E files \in {<<>>, ValidFiles, MalformedFiles, NoThreadsFiles},
        memory \in {"missing", "present", "backed up"} :
       /\ fs = WithMemory(files, memory)
       /\ dirs = (IF files = <<>> THEN mkdir({}, WorkspaceRoot)
                  ELSE mkdir(mkdir({}, MemoryDir), dirname(NoteFile)))
                   \cup (IF memory = "backed up" THEN {backupDir(MemoryFile)} ELSE {})
  /\ tasksFile \in {<<>>, <<Task(1, "a", "pending", TRUE, 0, FALSE)>>}
  /\ prevFile = tasksFile
  /\ today = 1
  /\ uuids = 0
  /\ call = Call("none", "", 0, "", "")
  /\ result = Result(TRUE, <<>>, -1, "")
  /\ now = 1 /\ calls = 0
  /\ DEFAULT_STATE = EmotionalState(DefaultCurrentState, <<>>)
  /\ AccessIdle
  /\ BootIdle
  /\ AtomicIdle

\* Every action is a whole call; MaxCalls calls are made.
MemoryUpdate ==
  /\ calls < MaxCalls
  /\ \E c \in MemoryCalls : memoryUpdate(c[1], c[2], c[3])

DashboardUpdate ==
  /\ calls < MaxCalls
  /\ \E message \in Messages, emoji \in {""} : updateDashboardNote(NoteFile, message, emoji)

ReadNote == calls < MaxCalls /\ readCurrentNote(NoteFile)

EmotionalInit == calls < MaxCalls /\ initEmotionalState(StateFile)

EmotionalUpdate ==
  /\ calls < MaxCalls
  /\ \E update \in Updates : updateEmotionalState(StateFile, update)

ThreadMarker ==
  /\ calls < MaxCalls
  /\ \E params \in ThreadCalls : threadMarker(params)

CaptureNoTask == \E params \in CaptureParamsNoTask : quickCapture(params)

NextFiles ==
  \/ MemoryUpdate
  \/ DashboardUpdate
  \/ ReadNote
  \/ EmotionalInit
  \/ EmotionalUpdate
  \/ ThreadMarker
  \/ CaptureNoTask

SpecFiles == InitFiles /\ [][NextFiles]_vars

\* ----------------------------------------------------------------------
\* SpecEmotional: initEmotionalState and updateEmotionalState, called one
\* after the other in one process, on two state files
\* ----------------------------------------------------------------------

\* A second state file of the same process.
OtherStateFile == Path(MemoryDir, "emotional-state-other", "json")

StateFiles == {StateFile, OtherStateFile}

\* The recent_wakes that n earlier updates with threads have left, newest
\* first; the clock stands at MAX_RECENT_WAKES + 1 afterwards.
Wakes(n) ==
  [i \in 1..n |-> [timestamp |-> MAX_RECENT_WAKES + 1 - i,
                   threads |-> "a thread", question |-> Undefined]]

\* Updates with threads, with a question, with both, with neither, and with
\* an empty string in their place.
WakeUpdates ==
  Updates \cup { Update(Undefined, Undefined, "a question"),
                 Update("joy", "a thread", "a question"),
                 Update(Undefined, "", Undefined) }

\* The state file is missing, holds the default state, or holds what earlier
\* updates have written: a list of wakes that is one short of full, or full.
InitEmotional ==
  /\ \E n \in {-1, 0, MAX_RECENT_WAKES - 1, MAX_RECENT_WAKES} :
       fs = IF n < 0 THEN <<>>
            ELSE put(<<>>, StateFile,
                     Json(EmotionalState(DefaultCurrentState, Wakes(n))))
  /\ dirs = mkdir({}, MemoryDir)
  /\ now = MAX_RECENT_WAKES + 1 /\ calls = 0
  /\ DEFAULT_STATE = EmotionalState(DefaultCurrentState, <<>>)
  /\ TaskIdle
  /\ AccessIdle
  /\ BootIdle
  /\ AtomicIdle

InitState ==
  /\ calls < MaxSteps
  /\ \E stateFile \in StateFiles : initEmotionalState(stateFile)

UpdateState ==
  /\ calls < MaxSteps
  /\ \E stateFile \in StateFiles, update \in WakeUpdates :
       updateEmotionalState(stateFile, update)

NextEmotional ==
  \/ InitState
  \/ UpdateState

SpecEmotional == InitEmotional /\ [][NextEmotional]_vars

\* ----------------------------------------------------------------------
\* SpecThreads: threadMarker called again and again on one workspace
\* ----------------------------------------------------------------------

\* threads.json does not exist yet, or holds no thread.
InitThreads ==
  /\ \/ fs = <<>> /\ dirs = mkdir({}, WorkspaceRoot)
     \/ fs = put(<<>>, ThreadsFile, Json([threads |-> <<>>]))
          /\ dirs = mkdir({}, MemoryDir)
  /\ now = 1 /\ calls = 0
  /\ DEFAULT_STATE = EmotionalState(DefaultCurrentState, <<>>)
  /\ TaskIdle
  /\ AccessIdle
  /\ BootIdle
  /\ AtomicIdle

MarkThread ==
  /\ calls < MaxSteps
  /\ \E params \in ThreadCalls : threadMarker(params)

NextThreads ==
  \/ MarkThread
  \/ Tick

SpecThreads == InitThreads /\ [][NextThreads]_vars

\* ======================================================================
\* The research quota: src/src/tools/research.ts
\* ======================================================================

DEFAULT_CONFIG == [daily_deep_research_limit |-> 15, perplexity_fallback |-> TRUE]

\* A line of the usage log: an entry (UsageLogEntry; timestamp and query are
\* never read), a line that JSON.parse rejects, or a line of white space.
Usage(date, provider) == [kind |-> "entry", date |-> date, provider |-> provider]

MalformedUsage == [kind |-> "malformed", date |-> 0, provider |-> ""]

BlankLine == [kind |-> "blank", date |-> 0, provider |-> ""]

\* The text of a log: its lines, and whether the last one ends in "\n".  The
\* empty string is Jsonl(<<>>, TRUE).
Jsonl(lines, terminated) ==
  [kind |-> "jsonl", lines |-> lines, terminated |-> terminated]

\* safeReadFile: null when the file does not exist.
safeReadFile(files, path) ==
  IF exists(files, path) THEN [null |-> FALSE, content |-> files[path]]
  ELSE [null |-> TRUE]

\* content.split("\n").filter(line => line.trim())
splitLines(content) == SelectSeq(content.lines, LAMBDA line : line.kind # "blank")

\* The test of line 218 without the date.
countsAnyDay(line, todayStr) ==
  line.kind = "entry" /\ line.provider = "deep-research"

\* The entry is counted: JSON.parse succeeded and date and provider match.
countsToday(line, todayStr) ==
  line.kind = "entry" /\ line.date = todayStr /\ line.provider = "deep-research"

\* countTodayUsage
countTodayUsage(files, logFile, todayStr) ==
  LET read == safeReadFile(files, logFile)
  IN IF read.null \/ read.content.lines = <<>> THEN 0
     ELSE Len(SelectSeq(splitLines(read.content),
                        LAMBDA line : countsToday(line, todayStr)))

\* Math.max
max(a, b) == IF a >= b THEN a ELSE b

\* checkQuota: rejects when the config file holds text that is not JSON.
checkQuota(files, configFile, logFile, todayStr) ==
  LET read == readJSON(files, configFile)
      config == IF read.null THEN DEFAULT_CONFIG ELSE read.value
      limit == config.daily_deep_research_limit
      used == countTodayUsage(files, logFile, todayStr)
      remaining == max(0, limit - used)
  IN IF read.threw THEN Thrown("Invalid JSON")
     ELSE Returned([limit |-> limit, used |-> used, remaining |-> remaining,
                    canUseDeepResearch |-> remaining > 0])

RouteOptions(forceDeep, forcePerplexity) ==
  [forceDeep |-> forceDeep, forcePerplexity |-> forcePerplexity]

RouteDecision(provider, reason) == [provider |-> provider, reason |-> reason]

\* routeResearch that looks at forcePerplexity first.
routeResearchPerplexityFirst(files, configFile, logFile, options, todayStr) ==
  LET quota == checkQuota(files, configFile, logFile, todayStr)
  IN IF options.forcePerplexity THEN Returned(RouteDecision("perplexity", "forced"))
     ELSE IF options.forceDeep THEN Returned(RouteDecision("deep-research", "forced"))
     ELSE IF quota.threw THEN quota
     ELSE IF quota.value.canUseDeepResearch
       THEN Returned(RouteDecision("deep-research", "under quota"))
     ELSE Returned(RouteDecision("perplexity", "quota exceeded"))

\* routeResearch
routeResearch(files, configFile, logFile, options, todayStr) ==
  LET quota == checkQuota(files, configFile, logFile, todayStr)
  IN IF options.forceDeep THEN Returned(RouteDecision("deep-research", "forced"))
     ELSE IF options.forcePerplexity THEN Returned(RouteDecision("perplexity", "forced"))
     ELSE IF quota.threw THEN quota
     ELSE IF quota.value.canUseDeepResearch
       THEN Returned(RouteDecision("deep-research", "under quota"))
     ELSE Returned(RouteDecision("perplexity", "quota exceeded"))

\* appendFile(path, JSON.stringify(entry) + "\n"): after a last line that has
\* no "\n" the entry continues that line, which then parses only if it was
\* white space.
appendLine(content, entry) ==
  IF content.lines = <<>> \/ content.terminated
    THEN Jsonl(Append(content.lines, entry), TRUE)
    ELSE LET last == content.lines[Len(content.lines)]
             joined == IF last.kind = "blank" THEN entry ELSE MalformedUsage
         IN Jsonl(Append(SubSeq(content.lines, 1, Len(content.lines) - 1), joined), TRUE)

\* logUsage
logUsage(files, dirset, logFile, provider, todayStr) ==
  [fs |-> put(files, logFile,
              appendLine(IF exists(files, logFile) THEN files[logFile]
                         ELSE Jsonl(<<>>, TRUE),
                         Usage(todayStr, provider))),
   dirs |-> mkdir(dirset, dirname(logFile))]

\* The filter without its catch: a line that does not parse is dropped.
keptByResetIfParsed(line, todayStr) == line.kind = "entry" /\ line.date # todayStr

\* The filter of resetDailyQuota: a line is kept when it does not parse or
\* its date is not today's.
keptByReset(line, todayStr) == ~ (line.kind = "entry" /\ line.date = todayStr)

\* resetDailyQuota
resetDailyQuota(files, dirset, logFile, todayStr, timestamp) ==
  IF ~ fileExists(files, logFile) THEN [threw |-> FALSE, fs |-> files, dirs |-> dirset]
  ELSE IF files[logFile].lines = <<>> THEN [threw |-> FALSE, fs |-> files, dirs |-> dirset]
  ELSE LET filtered == SelectSeq(splitLines(files[logFile]),
                                 LAMBDA line : keptByReset(line, todayStr))
       IN atomicWrite(files, dirset, logFile, Jsonl(filtered, TRUE), FALSE, TRUE, timestamp)

\* ----------------------------------------------------------------------
\* SpecResearch: calls of the research quota functions on one config file
\* and one usage log
\* ----------------------------------------------------------------------

ConfigFile == Path(WorkspaceRoot, "research-config", "json")

LogFile == Path(WorkspaceRoot, "research-usage", "jsonl")

\* The lines a log may hold before the first call: entries of the first day
\* and of the last, of either provider, and lines that are no entries.
UsageLines ==
  {Usage(date, provider) : date \in {1, MaxDay},
                           provider \in {"deep-research", "perplexity"}}
    \cup {MalformedUsage, BlankLine}

\* Config files: none, limits that the usage reaches and exceeds, and text
\* that is not JSON.
Configs ==
  { <<>>,
    put(<<>>, ConfigFile, Json([daily_deep_research_limit |-> 1, perplexity_fallback |-> TRUE])),
    put(<<>>, ConfigFile, Text(<<"{", "{">>)) }

InitResearch ==
  /\ \E config \in Configs :
       \/ fs = config
       \/ \E lines \in SeqsUpTo(UsageLines, MaxInitLines), terminated \in BOOLEAN :
            /\ lines = <<>> => terminated
            /\ fs = put(config, LogFile, Jsonl(lines, terminated))
  /\ dirs = mkdir({}, WorkspaceRoot)
  /\ now = 1 /\ calls = 0
  /\ DEFAULT_STATE = EmotionalState(DefaultCurrentState, <<>>)
  /\ TaskIdle
  /\ AccessIdle
  /\ BootIdle
  /\ AtomicIdle

\* What a call of the research functions leaves alone.
ResearchFrame ==
  /\ calls' = calls + 1
  /\ UNCHANGED <<tasksFile, today, uuids, prevFile, now, DEFAULT_STATE,
                 accessVars, bootVars, atomicVars>>

CheckQuota ==
  /\ calls < MaxSteps
  /\ call' = [tool |-> "checkQuota"]
  /\ result' = checkQuota(fs, ConfigFile, LogFile, today)
  /\ UNCHANGED <<fs, dirs>>
  /\ ResearchFrame

RouteResearch ==
  /\ calls < MaxSteps
  /\ \E options \in {RouteOptions(d, p) : d, p \in BOOLEAN} :
       /\ call' = [tool |-> "routeResearch", options |-> options]
       /\ result' = routeResearch(fs, ConfigFile, LogFile, options, today)
  /\ UNCHANGED <<fs, dirs>>
  /\ ResearchFrame

LogUsage ==
  /\ calls < MaxSteps
  /\ \E provider \in {"deep-research", "perplexity"} :
       LET logged == logUsage(fs, dirs, LogFile, provider, today)
       IN /\ call' = [tool |-> "logUsage", provider |-> provider]
          /\ fs' = logged.fs /\ dirs' = logged.dirs
          /\ result' = Returned("")
  /\ ResearchFrame

ResetDailyQuota ==
  /\ calls < MaxSteps
  /\ LET reset == resetDailyQuota(fs, dirs, LogFile, today, now)
     IN /\ call' = [tool |-> "resetDailyQuota"]
        /\ fs' = reset.fs /\ dirs' = reset.dirs
        /\ result' = IF reset.threw THEN Thrown("ENOENT") ELSE Returned("")
  /\ ResearchFrame

NextResearch ==
  \/ CheckQuota
  \/ RouteResearch
  \/ LogUsage
  \/ ResetDailyQuota
  \/ Tick

SpecResearch == InitResearch /\ [][NextResearch]_vars

\* ======================================================================
\* The diary: src/src/tools/diary.ts
\* ======================================================================

\* ${HOME}/.openclaw/workspace/memory/diary.jsonl
DIARY_PATH == Path(MemoryDir, "diary", "jsonl")

\* A DiaryEntry: a line of diary.jsonl that parses.  timestamp is the clock
\* in milliseconds, date the day; energy, the lists and private are written
\* and never read.
DiaryEntry(id, timestamp, date, mood, reflections) ==
  [kind |-> "entry", id |-> id, timestamp |-> timestamp, date |-> date,
   mood |-> mood, reflections |-> reflections]

DiaryWriteParams(reflections, mood) == [reflections |-> reflections, mood |-> mood]

\* limit, after and before are 0 and mood is Undefined when not given.
DiaryReadParams(limit, after, before, mood) ==
  [limit |-> limit, after |-> after, before |-> before, mood |-> mood]

\* diaryWrite(params): appendFile makes no directory.
diaryWrite(params) ==
  LET entry == DiaryEntry(randomUUID(uuids + 1), now, today, params.mood,
                          trimMessage(params.reflections))
      content == IF exists(fs, DIARY_PATH) THEN fs[DIARY_PATH] ELSE Jsonl(<<>>, TRUE)
  IN /\ Elapse
     /\ call' = [tool |-> "diaryWrite", params |-> params]
     /\ IF length(params.reflections) = 0 \/ length(trimMessage(params.reflections)) = 0
          THEN /\ result' = Thrown("Reflections cannot be empty")
               /\ UNCHANGED <<fs, uuids>>
        ELSE IF length(params.reflections) < 50
          THEN /\ result' = Thrown("Reflections should be at least 50 characters")
               /\ UNCHANGED <<fs, uuids>>
        ELSE IF ~ hasDir(dirs, DIARY_PATH)
          THEN /\ result' = Thrown("ENOENT")
               /\ uuids' = uuids + 1
               /\ UNCHANGED fs
        ELSE /\ fs' = put(fs, DIARY_PATH, appendLine(content, entry))
             /\ uuids' = uuids + 1
             /\ result' = Returned([success |-> TRUE, entry |-> entry])
     /\ UNCHANGED <<tasksFile, today, prevFile, dirs, DEFAULT_STATE,
                    accessVars, bootVars, atomicVars>>

\* Array.prototype.sort with the comparator of line 117 on entries already
\* sorted, and one more: the sort is stable, so the entry goes behind every
\* entry whose timestamp is not smaller than its own.
insertNewestFirst(sorted, entry) ==
  LET ahead == SelectSeq(sorted, LAMBDA e : e.timestamp >= entry.timestamp)
      behind == SelectSeq(sorted, LAMBDA e : e.timestamp < entry.timestamp)
  IN ahead \o <<entry>> \o behind

RECURSIVE sortNewestFirst(_)
sortNewestFirst(entries) ==
  IF entries = <<>> THEN <<>>
  ELSE insertNewestFirst(sortNewestFirst(SubSeq(entries, 1, Len(entries) - 1)),
                         entries[Len(entries)])

\* The filters of diaryRead, lines 103-111.
matches(entry, params) ==
  /\ params.after # 0 => entry.date >= params.after
  /\ params.before # 0 => entry.date <= params.before
  /\ params.mood # Undefined => entry.mood = params.mood

\* lines.map(line => JSON.parse(line)): the SyntaxError of a line that does
\* not parse is not caught.
parseLines(lines) ==
  IF \E i \in DOMAIN lines : lines[i].kind # "entry"
    THEN [threw |-> TRUE, entries |-> <<>>]
    ELSE [threw |-> FALSE, entries |-> lines]

\* What diaryRead computes from the files.  The model's diary holds no empty
\* line, so content.trim().split("\n").filter(l => l) gives its lines.
readDiary(files, params) ==
  LET parsed == parseLines(files[DIARY_PATH].lines)
      filtered == SelectSeq(parsed.entries, LAMBDA e : matches(e, params))
      sorted == sortNewestFirst(filtered)
      total == Len(sorted)
      limited == IF params.limit # 0 /\ params.limit < total
                   THEN SubSeq(sorted, 1, params.limit) ELSE sorted
  IN IF ~ exists(files, DIARY_PATH) THEN Returned([entries |-> <<>>, total |-> 0])
     ELSE IF parsed.threw THEN Thrown("SyntaxError")
     ELSE Returned([entries |-> limited, total |-> total])

\* What a call that reads the diary leaves alone.
DiaryFrame ==
  /\ Elapse
  /\ UNCHANGED <<fs, dirs, tasksFile, today, uuids, prevFile, DEFAULT_STATE,
                 accessVars, bootVars, atomicVars>>

\* diaryRead(params)
diaryRead(params) ==
  /\ call' = [tool |-> "diaryRead", params |-> params]
  /\ result' = readDiary(fs, params)
  /\ DiaryFrame

\* diaryToday(): the first entry of diaryRead({after: today, limit: 1}), or
\* null.
diaryToday ==
  LET read == readDiary(fs, DiaryReadParams(1, today, 0, Undefined))
  IN /\ call' = [tool |-> "diaryToday"]
     /\ result' = IF read.threw THEN read
                  ELSE IF read.value.entries = <<>> THEN Returned([null |-> TRUE])
                  ELSE Returned([null |-> FALSE, entry |-> read.value.entries[1]])
     /\ DiaryFrame

\* ----------------------------------------------------------------------
\* SpecDiary: diaryWrite, diaryRead and diaryToday called one after the
\* other
\* ----------------------------------------------------------------------

\* The entry of an earlier day, and the entry that a diaryWrite has written
\* in the millisecond in which the clock stands.
EarlierEntry == DiaryEntry(1, 0, 0, "calm", Message(0, 50, 0))

LatestEntry == DiaryEntry(2, 1, 1, Undefined, Message(0, 50, 0))

\* diary.jsonl before the first call: what diaryWrite calls have left, with
\* or without a line that does not parse.
Diaries ==
  { <<>>, <<EarlierEntry>>, <<LatestEntry>>, <<EarlierEntry, LatestEntry>>,
    <<MalformedUsage>>, <<EarlierEntry, MalformedUsage>> }

DiaryWrites ==
  { DiaryWriteParams(Message(0, 50, 0), Undefined),
    DiaryWriteParams(Message(1, 50, 1), "calm"),
    DiaryWriteParams(Message(0, 49, 0), "calm"),
    DiaryWriteParams(Message(2, 0, 0), Undefined),
    DiaryWriteParams(Message(0, 0, 0), Undefined) }

DiaryReads ==
  {DiaryReadParams(limit, after, 0, mood) :
     limit \in {0, 1}, after \in {0, 1}, mood \in {Undefined, "calm"}}
    \cup {DiaryReadParams(0, 0, 0, Undefined), DiaryReadParams(0, 0, 1, Undefined)}

InitDiary ==
  /\ \/ fs = <<>> /\ dirs \in {mkdir({}, WorkspaceRoot), mkdir({}, MemoryDir)}
     \/ \E lines \in Diaries :
          fs = put(<<>>, DIARY_PATH, Jsonl(lines, TRUE)) /\ dirs = mkdir({}, MemoryDir)
  /\ now = 1 /\ calls = 0
  /\ DEFAULT_STATE = EmotionalState(DefaultCurrentState, <<>>)
  /\ TaskIdle
  /\ AccessIdle
  /\ BootIdle
  /\ AtomicIdle

DiaryWrite ==
  /\ calls < MaxSteps
  /\ \E params \in DiaryWrites : diaryWrite(params)

DiaryRead ==
  /\ calls < MaxSteps
  /\ \E params \in DiaryReads : diaryRead(params)

DiaryToday == calls < MaxSteps /\ diaryToday

NextDiary ==
  \/ DiaryWrite
  \/ DiaryRead
  \/ DiaryToday

SpecDiary == InitDiary /\ [][NextDiary]_vars

\* ----------------------------------------------------------------------
\* SpecOverlap: two atomicWrite calls on the same path, one file-system
\* call per step.  In this specification aw holds both calls, aw[1] and
\* aw[2]; each has, besides the fields of AtomicWrite, the file that its
\* open descriptor refers to: the file at path + ".tmp" ("tmp"), the file at
\* path after a rename has moved it there ("path"), or a file that has no
\* directory entry any more ("unlinked").
\* ----------------------------------------------------------------------

Writers == {1, 2}

\* The content that writer w passes: MaxChunks chunks of its own.
ContentOf(w) == [i \in 1..MaxChunks |-> <<w, i>>]

\* write(fd, chunk) at the position of the descriptor: the bytes there are
\* overwritten, and a file that is shorter is filled up with zero bytes.
writeAt(chars, position, chunk) ==
  [i \in 1..(IF position > Len(chars) THEN position ELSE Len(chars)) |->
     IF i = position THEN chunk
     ELSE IF i <= Len(chars) THEN chars[i]
     ELSE "\\0"]

\* Lines 62-64 of writer w.
overlapMkdir(w) ==
  /\ aw[w].pc = "mkdir"
  /\ dirs' = mkdir(dirs, dirname(aw[w].path))
  /\ aw' = [aw EXCEPT ![w].pc = "open"]
  /\ UNCHANGED <<fs, now, calls, DEFAULT_STATE, observed, taskVars, accessVars, bootVars>>

\* Line 71 of writer w, writeFile opening path + ".tmp": the file is
\* created, or truncated when it exists, whoever else has it open.
overlapOpen(w) ==
  /\ aw[w].pc = "open"
  /\ fs' = put(fs, tmpPath(aw[w].path), Text(<<>>))
  /\ aw' = [aw EXCEPT ![w].pc = "write", ![w].written = 0, ![w].fd = "tmp"]
  /\ UNCHANGED <<dirs, now, calls, DEFAULT_STATE, observed, taskVars, accessVars, bootVars>>

\* Line 71 of writer w, writeFile writing its next chunk to the file that it
\* has open, or closing the file when all is written.
overlapChunk(w) ==
  /\ aw[w].pc = "write"
  /\ IF aw[w].written < Len(aw[w].content)
       THEN LET target == IF aw[w].fd = "tmp" THEN tmpPath(aw[w].path) ELSE aw[w].path
            IN /\ fs' = IF aw[w].fd = "unlinked" THEN fs
                        ELSE put(fs, target,
                                 Text(writeAt(fs[target].chars, aw[w].written + 1,
                                              aw[w].content[aw[w].written + 1])))
               /\ aw' = [aw EXCEPT ![w].written = @ + 1]
       ELSE /\ aw' = [aw EXCEPT ![w].pc = "rename", ![w].fd = "none"]
            /\ UNCHANGED fs
  /\ UNCHANGED <<dirs, now, calls, DEFAULT_STATE, observed, taskVars, accessVars, bootVars>>

\* Line 75 of writer w: rename(tmpPath, path) moves the file to path, where
\* the descriptors that are open on it follow it, and unlinks the file that
\* was at path; ENOENT when there is no path + ".tmp".
overlapRename(w) ==
  /\ aw[w].pc = "rename"
  /\ IF exists(fs, tmpPath(aw[w].path))
       THEN /\ fs' = rename(fs, tmpPath(aw[w].path), aw[w].path).fs
            /\ aw' = [v \in Writers |->
                        IF v = w THEN [aw[v] EXCEPT !.pc = "done"]
                        ELSE [aw[v] EXCEPT !.fd = CASE @ = "tmp" -> "path"
                                                    [] @ = "path" -> "unlinked"
                                                    [] OTHER -> @]]
       ELSE /\ aw' = [aw EXCEPT ![w].pc = "failed"]
            /\ UNCHANGED fs
  /\ UNCHANGED <<dirs, now, calls, DEFAULT_STATE, observed, taskVars, accessVars, bootVars>>

\* Two calls atomicWrite(path, content) have been made, none has taken a
\* step; the path holds old content or does not exist.
InitOverlap ==
  /\ \/ fs = <<>>
     \/ \E old \in OldContents : fs = put(<<>>, StateFile, old)
  /\ aw = [w \in Writers |->
             [fd |-> "none"] @@
               AtomicWrite("mkdir", StateFile, ContentOf(w), FALSE, TRUE, 0,
                           readFile(fs, StateFile))]
  /\ dirs \in {mkdir({}, WorkspaceRoot), mkdir({}, MemoryDir)}
  /\ observed = [kind |-> "none"]
  /\ now = 1 /\ calls = 0
  /\ DEFAULT_STATE = [current_state |-> DefaultCurrentState, recent_wakes |-> <<>>]
  /\ TaskIdle
  /\ AccessIdle
  /\ BootIdle

WriterMkdir == \E w \in Writers : overlapMkdir(w)

WriterOpen == \E w \in Writers : overlapOpen(w)

WriterChunk == \E w \in Writers : overlapChunk(w)

WriterRename == \E w \in Writers : overlapRename(w)

NextOverlap ==
  \/ WriterMkdir
  \/ WriterOpen
  \/ WriterChunk
  \/ WriterRename

SpecOverlap == InitOverlap /\ [][NextOverlap]_vars

\* ----------------------------------------------------------------------
\* Claims about deriveAccessLevel and canAccess (checked under SpecAccess)
\* ----------------------------------------------------------------------

\* The fixed order public < household < trusted < family < private.
Rank(level) ==
  CASE level = "public" -> 0
    [] level = "household" -> 1
    [] level = "trusted" -> 2
    [] level = "family" -> 3
    [] level = "private" -> 4

KeyType(key) == IF Len(split(key)) >= 4 THEN split(key)[4] ELSE Undefined

KeyId(key) == IF Len(split(key)) >= 5 THEN split(key)[5] ELSE Undefined

\* The keys the rules recognise: the main session, a group chat, and a DM of
\* a user of the lookup table.
Recognized(key) ==
  \/ key = MainSession
  \/ Len(split(key)) >= 4 /\ KeyType(key) = "group"
  \/ Len(split(key)) >= 4 /\ KeyType(key) = "dm" /\ KeyId(key) \in DOMAIN USER_ACCESS_MAP

DerivedCall == returned /\ currentLevel = ""

\* C4: deriveAccessLevel returns one of the five levels for every session
\* key, whatever string the id segment holds, and a key that is not
\* recognised never yields a level above public.
C4_DeriveIsTotalAndFailsSafe ==
  DerivedCall =>
    /\ derived \in Levels
    /\ ~ Recognized(sessionKey) => derived = "public"

\* C5: deriveAccessLevel follows the priority rules: the main session string
\* gives private, any other key of fewer than 4 segments gives public, a DM
\* whose id is in the lookup table gives the table's level, a group gives
\* trusted (also with an id of the table), everything else gives public.
C5_DeriveFollowsPriorityRules ==
  DerivedCall =>
    derived =
      IF sessionKey = MainSession THEN "private"
      ELSE IF Len(split(sessionKey)) < 4 THEN "public"
      ELSE IF KeyType(sessionKey) = "dm" /\ KeyId(sessionKey) \in DOMAIN USER_ACCESS_MAP
        THEN USER_ACCESS_MAP[KeyId(sessionKey)]
      ELSE IF KeyType(sessionKey) = "group" THEN "trusted"
      ELSE "public"

\* C6: canAccess(level, required) is true exactly when the rank of level is
\* at least the rank of required; it is reflexive on the five levels and
\* monotonic in the required level.
C6_CanAccessIsRankOrder ==
  (returned /\ currentLevel # "") =>
    /\ allowed = (Rank(currentLevel) >= Rank(targetLevel))
    /\ canAccess(currentLevel, currentLevel)
    /\ \A R2 \in Levels :
         (allowed /\ Rank(R2) <= Rank(targetLevel)) => canAccess(currentLevel, R2)

\* canAccess was called with the same level twice and returned true.
C6_Witness ==
  /\ returned /\ currentLevel # ""
  /\ currentLevel = targetLevel
  /\ allowed

\* ----------------------------------------------------------------------
\* Claims about the bootstrap hook handler (checked under SpecBoot)
\* ----------------------------------------------------------------------

IsBootstrap == event.type = "agent" /\ event.action = "bootstrap"

\* The handler got as far as the try block and has returned.
Handled ==
  /\ outcome = "returned" /\ IsBootstrap /\ event.hasContext
  /\ event.workspaceDir # "" /\ event.hasBootstrapFiles

ResolvedLevel == deriveAccessLevel(resolveSessionKey(event))

AllHavePaths(files) == \A i \in DOMAIN files : files[i].kind # "nopath"

\* The level a path requires by the path convention: private under
\* memory/private/, family under memory/family/, none for any other path.
RequiredLevels(path) ==
  (IF includes(path, <<"memory", "private">>, TRUE) THEN {"private"} ELSE {})
    \cup (IF includes(path, <<"memory", "family">>, TRUE) THEN {"family"} ELSE {})

IsDaily(file, level) ==
  /\ file.kind = "object"
  /\ file.path \in {<<event.workspaceDir>> \o dailyPath(level, Today),
                    <<event.workspaceDir>> \o dailyPath(level, Yesterday)}

\* The list after the handler is expected followed by at most two injected
\* daily files.
RetainedIs(expected) ==
  \E k \in 0..2 :
    /\ Len(bootstrapFiles) = Len(expected) + k
    /\ SubSeq(bootstrapFiles, 1, Len(expected)) = expected
    /\ \A i \in (Len(expected) + 1)..Len(bootstrapFiles) :
         IsDaily(bootstrapFiles[i], ResolvedLevel)

C8_NoPrivateFileBelowPrivate ==
  (outcome = "returned" /\ IsBootstrap /\ ResolvedLevel # "private") =>
    \A i \in DOMAIN bootstrapFiles :
      bootstrapFiles[i].kind # "nopath" =>
        /\ ~ includes(bootstrapFiles[i].path, <<"memory", "private">>, TRUE)
        /\ ~ endsWithMemoryMd(bootstrapFiles[i].path)

\* C9: for any candidate list and levels L1, L2 with rank(L1) <= rank(L2),
\* every candidate the filter keeps at L1 it also keeps at L2.
C9_VisibilityMonotonic ==
  Handled =>
    \A L1, L2 \in Levels :
      Rank(L1) <= Rank(L2) =>
        Range(filterBootstrapFiles(event.bootstrapFiles, L1).files)
          \subseteq Range(filterBootstrapFiles(event.bootstrapFiles, L2).files)

\* The handler ran at level trusted on a list with a family file, which it
\* dropped, and a public file, which it kept.
C9_Witness ==
  /\ Handled /\ ResolvedLevel = "trusted"
  /\ Entry("string", <<"memory", "family", "notes.md">>) \in Range(event.bootstrapFiles)
  /\ Entry("string", <<"memory", "family", "notes.md">>) \notin Range(bootstrapFiles)
  /\ Entry("object", <<"memory", "public", "info.md">>) \in Range(bootstrapFiles)

\* An error was raised inside the try block.
InternalError ==
  /\ IsBootstrap /\ event.hasContext /\ event.workspaceDir # "" /\ event.hasBootstrapFiles
  /\ LET filtered == filterBootstrapFiles(event.bootstrapFiles, ResolvedLevel)
     IN \/ filtered.threw
        \/ injectDaily(filtered.files, ResolvedLevel, event.workspaceDir).threw

\* C10: the handler never propagates an exception, whatever the event lacks
\* (context, sessionKey, workspaceDir, paths), and after an internal error the
\* list is as the caller supplied it.
C10_HandlerNeverThrows ==
  outcome # "pending" =>
    /\ outcome = "returned"
    /\ InternalError => bootstrapFiles = event.bootstrapFiles

\* ----------------------------------------------------------------------
\* Claims about the task ledger (checked under Spec)
\* ----------------------------------------------------------------------

\* Positions of the lines of file that parse and carry id.
LinesOf(file, id) == {i \in DOMAIN file : file[i].json /\ file[i].id = id}

\* The line appended last for id.
LastLineOf(file, id) == file[CHOOSE i \in LinesOf(file, id) : \A j \in LinesOf(file, id) : j <= i]

IdsIn(file) == {file[i].id : i \in {j \in DOMAIN file : file[j].json}}

IsStatusCall == call.tool = "taskExecutor" /\ call.action = "status"

\* C1: after a status action on an id that is in tasks.jsonl, the list action
\* reports that id exactly once, with the new status, whatever records of the
\* id came before, and every line that was in the file is still there,
\* unchanged and in place.
C1_StatusIsCurrentAndHistoryKept ==
  (IsStatusCall /\ call.newStatus # "" /\ call.taskId \in IdsIn(prevFile)) =>
    LET listed == listTasks(tasksFile, "all")
    IN /\ result.success
       /\ Cardinality({i \in DOMAIN listed : listed[i].id = call.taskId}) = 1
       /\ \A i \in DOMAIN listed :
            listed[i].id = call.taskId => listed[i].status = call.newStatus
       /\ IsPrefix(prevFile, tasksFile)
       /\ Len(tasksFile) = Len(prevFile) + 1

\* A status action changed the status of a task that already had two records.
C1_Witness ==
  /\ IsStatusCall /\ result.success
  /\ Cardinality(LinesOf(prevFile, call.taskId)) >= 2
  /\ LastLineOf(prevFile, call.taskId).status # call.newStatus

\* C2: list with filter pending or completed returns exactly the ids whose
\* last-appended record has that status, one record per id and that record
\* being the last-appended one; with filter all or no filter it returns one
\* record per distinct id.
C2_ListFiltersOnLatestRecord ==
  (call.tool = "taskExecutor" /\ call.action = "list") =>
    LET tasks == result.tasks
        wanted == IF call.filter \in {"", "all"} THEN IdsIn(tasksFile)
                  ELSE {id \in IdsIn(tasksFile) :
                          LastLineOf(tasksFile, id).status = call.filter}
    IN /\ result.success
       /\ {tasks[i].id : i \in DOMAIN tasks} = wanted
       /\ \A i, j \in DOMAIN tasks : tasks[i].id = tasks[j].id => i = j
       /\ \A i \in DOMAIN tasks : tasks[i] = LastLineOf(tasksFile, tasks[i].id)

\* The log holds a pending record of a task followed by a completed one, and
\* list with filter pending did not return the task.
C2_Witness ==
  /\ call.tool = "taskExecutor" /\ call.action = "list" /\ call.filter = "pending"
  /\ \E id \in IdsIn(tasksFile) :
       /\ \E i \in LinesOf(tasksFile, id) : tasksFile[i].status = "pending"
       /\ LastLineOf(tasksFile, id).status = "completed"
       /\ \A i \in DOMAIN result.tasks : result.tasks[i].id # id

\* C3: tasks.jsonl is append-only: the content before a call is a prefix of
\* the content after it, for every quickCapture, status, execute and list call.
C3_AppendOnly == IsPrefix(prevFile, tasksFile)

\* An execute call completed a task of a log that already held two lines.
C3_Witness ==
  /\ call.tool = "taskExecutor" /\ call.action = "execute"
  /\ result.executed >= 1
  /\ Len(prevFile) >= 2
  /\ Len(tasksFile) > Len(prevFile)

\* ----------------------------------------------------------------------
\* Claims about atomicWrite (checked under SpecAtomic)
\* ----------------------------------------------------------------------

\* C11: while atomicWrite(path, new) runs on a file holding old content, the
\* path holds, and a reader of it sees, either the complete old content or
\* the complete new content, never a prefix, a truncated or a missing file;
\* until the rename, and when the call fails before it, the path holds the
\* complete old content.
C11_ReaderSeesOldOrNew ==
  aw.pc # "idle" =>
    /\ readFile(fs, aw.path) \in {aw.before, Text(aw.content)}
    /\ observed \in {[kind |-> "none"], aw.before, Text(aw.content)}
    /\ aw.pc # "done" => readFile(fs, aw.path) = aw.before
    /\ aw.pc = "done" => readFile(fs, aw.path) = Text(aw.content)

\* The call failed while the temporary file held a proper prefix of the new
\* content, and the reader then read the complete old content.
C11_Witness ==
  /\ aw.pc = "failed"
  /\ Len(aw.content) = MaxChunks
  /\ exists(fs, tmpPath(aw.path))
  /\ fs[tmpPath(aw.path)] = Text(SubSeq(aw.content, 1, 1))
  /\ observed = aw.before
  /\ aw.before # Text(aw.content)

\* ----------------------------------------------------------------------
\* Further claims about the task ledger (checked under Spec)
\* ----------------------------------------------------------------------

IsListCall == call.tool = "taskExecutor" /\ call.action = "list"

\* Positions of the lines of file that parse.
ValidLines(file) == {i \in DOMAIN file : file[i].json}

\* The first line of file that carries id.
FirstLineOf(file, id) == CHOOSE i \in LinesOf(file, id) : \A j \in LinesOf(file, id) : i <= j

\* C12: the list action on a log with v valid and m malformed lines succeeds
\* and is computed from exactly the v valid records in file order: v records
\* are read, every task returned is a valid line of the file, with no filter
\* every id of a valid line is returned, in the order in which the ids first
\* occur; a missing or empty log gives an empty list with success true.
C12_ListSkipsMalformedLines ==
  IsListCall =>
    /\ result.success
    /\ Len(readTasks(tasksFile)) = Cardinality(ValidLines(tasksFile))
    /\ \A i \in DOMAIN result.tasks :
         result.tasks[i] \in {tasksFile[k] : k \in ValidLines(tasksFile)}
    /\ call.filter \in {"", "all"} =>
         /\ {result.tasks[i].id : i \in DOMAIN result.tasks} = IdsIn(tasksFile)
         /\ \A i, j \in DOMAIN result.tasks :
              i < j => FirstLineOf(tasksFile, result.tasks[i].id)
                         < FirstLineOf(tasksFile, result.tasks[j].id)
    /\ tasksFile = <<>> => result.tasks = <<>>

\* The list action returned a task whose record comes after a malformed line.
C12_Witness ==
  /\ IsListCall /\ result.success
  /\ \E k \in DOMAIN tasksFile :
       /\ ~ tasksFile[k].json
       /\ \E i \in DOMAIN result.tasks :
            /\ FirstLineOf(tasksFile, result.tasks[i].id) > k
            /\ LinesOf(prevFile, result.tasks[i].id) # {}

\* C15: taskExecutor never raises: every call returns a result object, and a
\* status action whose taskId does not occur in tasks.jsonl, or that lacks
\* taskId or newStatus, returns success false with an error message and
\* appends nothing to the log.
C15_ExecutorReturnsErrors ==
  call.tool = "taskExecutor" =>
    /\ {"success", "error"} \subseteq DOMAIN result
    /\ (/\ IsStatusCall
        /\ \/ call.taskId = 0
           \/ call.newStatus = ""
           \/ call.taskId \notin IdsIn(prevFile)) =>
         /\ ~ result.success
         /\ result.error # ""
         /\ tasksFile = prevFile

\* A status action named an id that is not in a log of two lines, one of them
\* malformed, and was refused.
C15_Witness ==
  /\ IsStatusCall /\ call.taskId = UnknownId /\ call.newStatus = "completed"
  /\ Len(prevFile) = 2 /\ Cardinality(ValidLines(prevFile)) = 1
  /\ ~ result.success
  /\ tasksFile = prevFile

IsExecuteCall == call.tool = "taskExecutor" /\ call.action = "execute"

\* The lines a call appended.
Appended == SubSeq(tasksFile, Len(prevFile) + 1, Len(tasksFile))

\* C20: the execute action runs a task only if its latest record has status
\* pending and its dueDate is absent or not later than today; a task whose
\* dueDate is in the future or whose latest status is in-progress, completed
\* or cancelled is neither run nor given a new record; the executed count is
\* the number of completed records the call appended.
C20_ExecuteRunsOnlyDuePending ==
  IsExecuteCall =>
    /\ IsPrefix(prevFile, tasksFile)
    /\ \A id \in call.ran :
         /\ id \in IdsIn(prevFile)
         /\ LastLineOf(prevFile, id).status = "pending"
         /\ LastLineOf(prevFile, id).dueDate = 0 \/ LastLineOf(prevFile, id).dueDate <= today
    /\ \A i \in DOMAIN Appended :
         Appended[i].id \in call.ran /\ Appended[i].status = "completed"
    /\ result.executed = Len(Appended)

\* An execute action ran and completed one task and left alone a pending task
\* that is due on a later day.
C20_Witness ==
  /\ IsExecuteCall /\ result.executed = 1
  /\ \E id \in IdsIn(prevFile) :
       /\ LastLineOf(prevFile, id).status = "pending"
       /\ LastLineOf(prevFile, id).dueDate > today
       /\ id \notin call.ran
       /\ LinesOf(tasksFile, id) = LinesOf(prevFile, id)

\* ----------------------------------------------------------------------
\* Further claims about the bootstrap hook handler (checked under SpecBoot)
\* ----------------------------------------------------------------------

\* Some entry of files has a path that contains the relative path daily.
Contains(files, daily) ==
  \E i \in DOMAIN files : includes(pathOf(files[i]), daily, FALSE)

\* The entry for a daily file of level, when files has none, else nothing.
Missing(files, level, date) ==
  IF Contains(files, dailyPath(level, date))
    THEN <<>>
    ELSE << Entry("object", <<event.workspaceDir>> \o dailyPath(level, date)) >>

\* C19: after the handler completes at level L, the list contains an entry
\* for memory/L/<today>-daily.md and one for memory/L/<yesterday>-daily.md,
\* appended after the retained candidates; an entry is not appended when some
\* path already in the list contains that relative path, so a second
\* application of the handler to its own output adds no further entry.
C19_DailyFilesInjectedOnce ==
  (Handled /\ ~ InternalError) =>
    LET L == ResolvedLevel
        input == inputs[Len(inputs)]
        retained == IF L = "private" THEN input
                    ELSE SelectSeq(input, LAMBDA file : keepFile(pathOf(file), L))
    IN /\ Contains(bootstrapFiles, dailyPath(L, Today))
       /\ Contains(bootstrapFiles, dailyPath(L, Yesterday))
       /\ bootstrapFiles = retained \o Missing(retained, L, Today)
                                    \o Missing(retained, L, Yesterday)
       /\ Len(inputs) >= 2 => bootstrapFiles = input

\* The handler ran twice at level trusted on a list that held today's daily
\* file of trusted: the first run appended yesterday's only, the second
\* nothing.
C19_Witness ==
  /\ Handled /\ ~ InternalError /\ ResolvedLevel = "trusted"
  /\ Len(inputs) = 2
  /\ Contains(inputs[1], dailyPath("trusted", Today))
  /\ ~ Contains(inputs[1], dailyPath("trusted", Yesterday))
  /\ Len(inputs[2]) = Len(inputs[1]) + 1
  /\ bootstrapFiles = inputs[2]

\* ----------------------------------------------------------------------
\* Claims about the file tools (checked under SpecFiles)
\* ----------------------------------------------------------------------

\* The step is a call of the file tool named.
FileCall(tool) == calls' = calls + 1 /\ call'.tool = tool

\* A sequence of characters that is empty or all white space.
BlankChars(chars) == \A i \in DOMAIN chars : chars[i] = " "

\* The backups of path: the files of its sibling .backups directory that
\* carry its base name and a timestamp.
BackupsOf(files, path) ==
  {b \in DOMAIN files :
     /\ b.dir = Append(path.dir, ".backups")
     /\ b.name = path.name /\ b.ext = path.ext /\ b.stamp # 0}

\* C13: memoryUpdate with operation append or replace on an existing file
\* leaves, in the sibling .backups directory, a copy whose content equals
\* the content the file had before the update; when the file does not exist
\* no backup is created and the operation still succeeds.
C13_BackupHoldsPreviousContent ==
  [][(/\ FileCall("memoryUpdate")
      /\ call'.operation \in {"append", "replace"}
      /\ ~ BlankChars(call'.content)) =>
       LET path == call'.filePath
       IN /\ ~ result'.threw
          /\ exists(fs', path)
          /\ IF exists(fs, path)
               THEN /\ \E b \in BackupsOf(fs', path) : fs'[b] = fs[path]
                    /\ IF call'.operation = "replace"
                         THEN fs'[path] = Text(call'.content)
                         ELSE fs'[path] # fs[path]
                    /\ Append(path.dir, ".backups") \in dirs'
               ELSE BackupsOf(fs', path) = BackupsOf(fs, path)]_vars

\* MEMORY.md held "old" and was replaced by "new"; its backup holds "old".
C13_Witness ==
  /\ call.tool = "memoryUpdate" /\ call.operation = "replace"
  /\ call.filePath = MemoryFile
  /\ ~ result.threw
  /\ fs[MemoryFile] = Text(<<"n", "e", "w">>)
  /\ \E b \in BackupsOf(fs, MemoryFile) : fs[b] = Text(<<"o", "l", "d">>)

\* A string that is empty or all white space.
Blank(string) == string \in {"", "  "}

\* The calls that validation is to reject.
InvalidCapture(params) ==
  \/ Blank(params.content)
  \/ params.type \notin {"task", "uncertainty", "thread", "note"}
  \/ params.priority \notin {"", "low", "medium", "high"}

InvalidThread(params) ==
  \/ Blank(params.topic)
  \/ Blank(params.question)
  \/ params.importance \notin {"", "low", "medium", "high"}

InvalidMessage(message) == message.body = 0 \/ message.body > 500

\* No file and no directory is created, removed or changed.
NothingWritten == fs' = fs /\ dirs' = dirs /\ tasksFile' = tasksFile

\* C14: a call rejected by input validation changes no file: quickCapture
\* with empty or blank content or an invalid type or priority, threadMarker
\* with an empty topic or question or an invalid importance, memoryUpdate
\* with empty or blank content, and updateDashboardNote with an empty or
\* over-500-character message each report the error and leave every file and
\* directory as it was.
C14_RejectedCallWritesNothing ==
  [][/\ (/\ calls' = calls /\ call'.tool = "quickCapture" /\ call' # call
         /\ InvalidCapture(call'.params)) =>
          (~ result'.success /\ result'.error # "" /\ NothingWritten)
     /\ (FileCall("threadMarker") /\ InvalidThread(call'.params)) =>
          (~ result'.success /\ result'.error # "" /\ NothingWritten)
     /\ (FileCall("memoryUpdate") /\ BlankChars(call'.content)) =>
          (result'.threw /\ result'.error # "" /\ NothingWritten)
     /\ (FileCall("updateDashboardNote") /\ InvalidMessage(call'.message)) =>
          (result'.threw /\ result'.error # "" /\ NothingWritten)]_vars

\* updateDashboardNote was called with a message of 501 characters on an
\* existing note file and threw; the file holds the note it held.
C14_Witness ==
  /\ call.tool = "updateDashboardNote"
  /\ call.message.body = MAX_MESSAGE_LENGTH + 1
  /\ result.threw
  /\ exists(fs, NoteFile)
  /\ fs[NoteFile] = ValidFiles[NoteFile]

\* The file holds something that JSON.parse rejects.
Malformed(files, path) == exists(files, path) /\ files[path].kind # "json"

\* The call failed: its promise rejected, or it returned success false.
Failed(res) ==
  IF "threw" \in DOMAIN res THEN res.threw ELSE ~ res.success

\* C16: when a single-record JSON file (emotional-state.json, the dashboard
\* note file, threads.json) holds malformed JSON, the operation that reads it
\* (initEmotionalState, updateEmotionalState, readCurrentNote, threadMarker)
\* reports the failure to its caller and does not change the file.
C16_MalformedFileReportedAndKept ==
  [][/\ ((FileCall("initEmotionalState") \/ FileCall("updateEmotionalState"))
           /\ Malformed(fs, call'.stateFile)) =>
          (Failed(result') /\ fs' = fs)
     /\ (FileCall("readCurrentNote") /\ Malformed(fs, call'.noteFile)) =>
          (Failed(result') /\ fs' = fs)
     /\ (FileCall("threadMarker") /\ ~ InvalidThread(call'.params)
           /\ Malformed(fs, ThreadsFile)) =>
          (Failed(result') /\ fs' = fs)]_vars

\* C17: memoryUpdate writes only to allowed memory files: a call whose file
\* path validateMemoryPath rejects (it contains "..", is absolute, or is
\* neither MEMORY.md nor a .md/.json file under memory/) fails and creates,
\* appends to or replaces no file.
C17_UpdateOnlyAllowedPaths ==
  [][(FileCall("memoryUpdate") /\ ~ validateMemoryPath(call'.filePath)) =>
       (result'.threw /\ fs' = fs)]_vars

\* C18: memoryUpdate in create mode never overwrites: when the target exists
\* the call fails with "File already exists" and no file is changed; when it
\* does not exist the file is created with exactly the given content, its
\* missing parent directories included, and no other file is touched.
C18_CreateNeverOverwrites ==
  [][(/\ FileCall("memoryUpdate")
      /\ call'.operation = "create"
      /\ ~ BlankChars(call'.content)) =>
       LET path == call'.filePath
       IN IF exists(fs, path)
            THEN /\ result' = Thrown("File already exists")
                 /\ fs' = fs
            ELSE /\ ~ result'.threw
                 /\ DOMAIN fs' = DOMAIN fs \cup {path}
                 /\ fs'[path] = Text(call'.content)
                 /\ \A q \in DOMAIN fs : fs'[q] = fs[q]
                 /\ \A k \in 1..Len(path.dir) : SubSeq(path.dir, 1, k) \in dirs']_vars

\* memory/private/deep/notes.md was created with the content given, in
\* directories that did not exist.
C18_Witness ==
  /\ call.tool = "memoryUpdate" /\ call.operation = "create"
  /\ call.filePath = Path(<<"memory", "private", "deep">>, "notes", "md")
  /\ ~ result.threw
  /\ fs[call.filePath] = Text(call.content)
  /\ <<"memory", "private", "deep">> \in dirs

\* ----------------------------------------------------------------------
\* Claims about the emotional state (checked under SpecEmotional)
\* ----------------------------------------------------------------------

\* recent_wakes of the state file at path; [] when there is no file.
WakesIn(files, path) ==
  IF exists(files, path) THEN files[path].value.recent_wakes ELSE <<>>

\* The update supplies threads or a question.
Supplied(update) ==
  \/ update.threads \notin {Undefined, ""}
  \/ update.question \notin {Undefined, ""}

\* C21: after every updateEmotionalState call recent_wakes holds at most 10
\* entries, newest first; an update that supplies threads or a question puts
\* its wake entry in front of the entries that were there and drops what
\* lies beyond the tenth, so the list is the wakes of the 10 most recent
\* such updates; an update that supplies neither leaves the list as it was.
C21_RecentWakesNewestTen ==
  [][(FileCall("updateEmotionalState") /\ ~ result'.threw) =>
       LET path == call'.stateFile
           update == call'.update
           before == WakesIn(fs, path)
           after == WakesIn(fs', path)
       IN /\ Len(after) <= 10
          /\ \A i, j \in DOMAIN after :
               i < j => after[i].timestamp >= after[j].timestamp
          /\ result'.value.recent_wakes = after
          /\ IF Supplied(update)
               THEN /\ after[1] = [timestamp |-> now, threads |-> update.threads,
                                   question |-> update.question]
                    /\ Len(after) = IF Len(before) < 10 THEN Len(before) + 1 ELSE 10
                    /\ \A i \in 2..Len(after) : after[i] = before[i - 1]
               ELSE after = before]_vars

\* An update with threads met a full list: its wake is the first of ten and
\* the oldest wake, that of time 1, is gone.
C21_Witness ==
  /\ call.tool = "updateEmotionalState" /\ call.stateFile = StateFile
  /\ call.update.threads = "a thread"
  /\ Len(WakesIn(fs, StateFile)) = 10
  /\ WakesIn(fs, StateFile)[1].timestamp > MAX_RECENT_WAKES
  /\ WakesIn(fs, StateFile)[10].timestamp = 2

\* C22: initEmotionalState on a path without a file writes and returns the
\* default state, whatever calls came before it; on a path with a valid file
\* it returns the state of the file and writes nothing.
C22_InitGivesDefaultOrExisting ==
  [][FileCall("initEmotionalState") =>
       LET path == call'.stateFile
       IN IF ~ exists(fs, path)
            THEN /\ ~ result'.threw
                 /\ result'.value = EmotionalState(DefaultCurrentState, <<>>)
                 /\ exists(fs', path)
                 /\ fs'[path] = Json(EmotionalState(DefaultCurrentState, <<>>))
            ELSE /\ ~ result'.threw
                 /\ result'.value = fs[path].value
                 /\ fs' = fs]_vars

\* ----------------------------------------------------------------------
\* Claims about threads.json (checked under SpecThreads)
\* ----------------------------------------------------------------------

\* The threads of threads.json; none when there is no file.
ThreadsIn(files) ==
  IF exists(files, ThreadsFile) THEN files[ThreadsFile].value.threads ELSE <<>>

\* C28: every successful threadMarker call adds one thread, of status open
\* and with an id that no other thread has, after the threads that are
\* stored, and changes none of them; a call that fails changes nothing: so
\* threads.json holds one thread per successful call, in call order.
C28_OneThreadPerCall ==
  [][FileCall("threadMarker") =>
       LET before == ThreadsIn(fs)
           after == ThreadsIn(fs')
       IN IF result'.success
            THEN /\ Len(after) = Len(before) + 1
                 /\ \A i \in DOMAIN before : after[i] = before[i]
                 /\ after[Len(after)].id = result'.threadId
                 /\ \A i \in DOMAIN after : after[i].status = "open"
                 /\ \A i, j \in DOMAIN after : after[i].id = after[j].id => i = j
                 /\ Len(after) = uuids'
            ELSE fs' = fs]_vars

\* Two calls have succeeded: threads.json holds their two threads.
C28_Witness ==
  /\ call.tool = "threadMarker" /\ result.success
  /\ Len(ThreadsIn(fs)) = 2
  /\ ThreadsIn(fs)[2].id = result.threadId
  /\ ThreadsIn(fs)[1].id # ThreadsIn(fs)[2].id

\* ----------------------------------------------------------------------
\* Claims about repeated execute actions (checked under Spec)
\* ----------------------------------------------------------------------

\* The latest record of id in file has status pending.
IsPending(file, id) ==
  id \in IdsIn(file) /\ LastLineOf(file, id).status = "pending"

\* The step is an execute action of taskExecutor.
ExecuteStep ==
  /\ call'.tool = "taskExecutor" /\ call'.action = "execute"
  /\ prevFile' = tasksFile /\ today' = today

\* C29: an execute action runs exactly the tasks that are pending and due;
\* a task that it ran and that has no command, or whose command succeeded,
\* gets one new record, the copy of its latest record with status completed,
\* and so is pending no more; a task whose command failed gets no record and
\* stays pending, so the next execute action runs it again; and only a
\* status action with newStatus pending makes a task pending that was not.
C29_RunOnceUnlessFailedOrReset ==
  [][/\ ExecuteStep =>
          /\ IsPrefix(tasksFile, tasksFile')
          /\ call'.ran = {id \in IdsIn(tasksFile) :
                            /\ IsPending(tasksFile, id)
                            /\ LastLineOf(tasksFile, id).dueDate <= today}
          /\ \A id \in call'.ran :
               LET latest == LastLineOf(tasksFile, id)
                   added == LinesOf(tasksFile', id) \ LinesOf(tasksFile, id)
               IN \/ /\ Cardinality(added) = 1
                     /\ \A i \in added :
                          tasksFile'[i] = [latest EXCEPT !.status = "completed",
                                                         !.completedAt = TRUE]
                     /\ ~ IsPending(tasksFile', id)
                  \/ /\ latest.command
                     /\ added = {}
                     /\ IsPending(tasksFile', id)
     /\ \A id \in IdsIn(tasksFile) :
          (~ IsPending(tasksFile, id) /\ IsPending(tasksFile', id)) =>
            /\ call'.tool = "taskExecutor" /\ call'.action = "status"
            /\ call'.taskId = id /\ call'.newStatus = "pending"]_vars

\* An execute action ran two tasks: the one without a command was completed,
\* the one whose command failed got no record and is still pending.
C29_Witness ==
  /\ IsExecuteCall
  /\ Cardinality(call.ran) = 2
  /\ Len(Appended) = 1
  /\ \E id \in call.ran : LinesOf(tasksFile, id) = LinesOf(prevFile, id)
                            /\ IsPending(tasksFile, id)
  /\ \E id \in call.ran : ~ IsPending(tasksFile, id)
                            /\ ~ LastLineOf(prevFile, id).command

\* ----------------------------------------------------------------------
\* Claims about the research quota (checked under SpecResearch)
\* ----------------------------------------------------------------------

\* The lines of the usage log; none when there is no log.
LogLines(files) == IF exists(files, LogFile) THEN files[LogFile].lines ELSE <<>>

\* Today's deep-research entries in the log, by position.
UsedToday(files, day) ==
  Cardinality({i \in DOMAIN LogLines(files) :
                 /\ LogLines(files)[i].kind = "entry"
                 /\ LogLines(files)[i].date = day
                 /\ LogLines(files)[i].provider = "deep-research"})

\* The limit of the config file, 15 when there is none.
LimitOf(files) ==
  IF exists(files, ConfigFile) THEN files[ConfigFile].value.daily_deep_research_limit
  ELSE 15

\* The config file is missing or holds JSON.
ConfigReadable(files) == exists(files, ConfigFile) => files[ConfigFile].kind = "json"

C24_RouteFollowsForceThenQuota ==
  [][FileCall("routeResearch") =>
       LET options == call'.options
       IN /\ fs' = fs
          /\ IF options.forceDeep
               THEN result' = Returned(RouteDecision("deep-research", "forced"))
             ELSE IF options.forcePerplexity
               THEN result' = Returned(RouteDecision("perplexity", "forced"))
             ELSE ConfigReadable(fs) =>
                    IF UsedToday(fs, today) < LimitOf(fs)
                      THEN result' = Returned(RouteDecision("deep-research", "under quota"))
                      ELSE result' = Returned(RouteDecision("perplexity", "quota exceeded"))]_vars

\* forceDeep and forcePerplexity were both set and today's quota is used up:
\* the answer is deep-research.
C24_Witness ==
  /\ call.tool = "routeResearch"
  /\ call.options.forceDeep /\ call.options.forcePerplexity
  /\ ConfigReadable(fs) /\ UsedToday(fs, today) >= LimitOf(fs)
  /\ result.value = RouteDecision("deep-research", "forced")

\* The line is an entry of the day.
IsOfDay(line, day) == line.kind = "entry" /\ line.date = day

\* C25 as stated: resetDailyQuota removes exactly the lines whose date is
\* today and keeps every other line, malformed lines included, in order;
\* checkQuota then reports used = 0; a missing or empty log is not changed
\* and the call does not fail.
C25_ResetRemovesExactlyTodaysLines ==
  [][FileCall("resetDailyQuota") =>
       /\ ~ result'.threw
       /\ IF LogLines(fs) = <<>> THEN fs' = fs
          ELSE /\ LogLines(fs') = SelectSeq(LogLines(fs),
                                            LAMBDA line : ~ IsOfDay(line, today))
               /\ UsedToday(fs', today) = 0]_vars

\* C25, amended: resetDailyQuota removes the lines whose date is today and
\* the blank lines, and keeps every other line, malformed lines included, in
\* order; checkQuota then reports used = 0; a missing or empty log is not
\* changed and the call does not fail.
C25_ResetRemovesTodaysAndBlankLines ==
  [][FileCall("resetDailyQuota") =>
       /\ ~ result'.threw
       /\ IF LogLines(fs) = <<>> THEN fs' = fs
          ELSE /\ LogLines(fs') =
                    SelectSeq(LogLines(fs),
                              LAMBDA line : ~ IsOfDay(line, today) /\ line.kind # "blank")
               /\ UsedToday(fs', today) = 0
               /\ ConfigReadable(fs') =>
                    checkQuota(fs', ConfigFile, LogFile, today).value.used = 0
               /\ \A path \in DOMAIN fs' : ~ path.tmp]_vars

\* A log of a malformed line and an entry of today was reset: the malformed
\* line is all that is left.
C25_Witness ==
  /\ call.tool = "resetDailyQuota" /\ ~ result.threw
  /\ LogLines(fs) = <<MalformedUsage>>
  /\ UsedToday(fs, today) = 0

\* ----------------------------------------------------------------------
\* Claims about the diary (checked under SpecDiary)
\* ----------------------------------------------------------------------

\* The lines of diary.jsonl, in the order in which they were written.
DiaryLines(files) == IF exists(files, DIARY_PATH) THEN files[DIARY_PATH].lines ELSE <<>>

\* Where the entry with the id stands in the diary.
WrittenAt(files, id) ==
  CHOOSE i \in DOMAIN DiaryLines(files) :
    DiaryLines(files)[i].kind = "entry" /\ DiaryLines(files)[i].id = id

\* The positions of the entries that pass the filters of params.
Matching(files, params) ==
  {i \in DOMAIN DiaryLines(files) :
     LET line == DiaryLines(files)[i]
     IN /\ line.kind = "entry"
        /\ params.after = 0 \/ line.date >= params.after
        /\ params.before = 0 \/ line.date <= params.before
        /\ params.mood = Undefined \/ line.mood = params.mood}

\* C26: diaryRead returns entries in reverse order of writing, however close
\* in time they were written, and total is the number of entries that pass
\* the filters; diaryToday returns the entry of today that was written last.
C26_DiaryNewestWrittenFirst ==
  [][/\ (FileCall("diaryRead") /\ ~ result'.threw) =>
          LET entries == result'.value.entries
          IN /\ \A i, j \in DOMAIN entries :
                  i < j => WrittenAt(fs, entries[i].id) > WrittenAt(fs, entries[j].id)
             /\ result'.value.total = Cardinality(Matching(fs, call'.params))
     /\ (FileCall("diaryToday") /\ ~ result'.threw) =>
          LET ofToday == {i \in DOMAIN DiaryLines(fs) :
                            DiaryLines(fs)[i].kind = "entry"
                              /\ DiaryLines(fs)[i].date = today}
          IN IF ofToday = {} THEN result'.value.null
             ELSE /\ ~ result'.value.null
                  /\ \A i \in ofToday : WrittenAt(fs, result'.value.entry.id) >= i]_vars

\* C27: diaryRead on a diary that holds malformed lines raises no exception
\* and returns the entries of the valid lines that pass its filters.
C27_DiaryReadSkipsMalformedLines ==
  [][FileCall("diaryRead") =>
       /\ ~ result'.threw
       /\ result'.value.total = Cardinality(Matching(fs, call'.params))
       /\ \A i \in DOMAIN result'.value.entries :
            \E j \in Matching(fs, call'.params) :
              result'.value.entries[i] = DiaryLines(fs)[j]]_vars

\* ----------------------------------------------------------------------
\* Claims about overlapping atomicWrite calls (checked under SpecOverlap)
\* ----------------------------------------------------------------------

\* Both calls are over.
BothOver == \A w \in Writers : aw[w].pc \in {"done", "failed"}

\* C30: when two atomicWrite calls on one path overlap, both complete
\* without error, the path then holds the whole content of one of them and
\* nothing else, and no path + ".tmp" is left.
C30_OverlappingWritesBothSucceed ==
  BothOver =>
    /\ \A w \in Writers : aw[w].pc = "done"
    /\ exists(fs, StateFile)
    /\ \E w \in Writers : fs[StateFile] = Text(aw[w].content)
    /\ ~ exists(fs, tmpPath(StateFile))

=============================================================================
